---- MODULE Spec2Model ----
(***************************************************************************)
(* Model of the sitemap extension: the discovery chain, the recursive     *)
(* sitemap-index traversal, the per-base-URL error conversion and the     *)
(* output scan of sitemap_urls() (src/src/sitemap_function.cpp), several  *)
(* calls of it sharing the discovery cache of the process, the retry loop *)
(* of HttpClient::Fetch (declared in src/src/include/http_client.hpp),    *)
(* the probe of bruteforce_find_sitemap (src/src/bruteforce_function.cpp) *)
(* and, on the characters of their input, IsSitemapUrl,                   *)
(* RobotsParser::ParseSitemapUrls (src/src/robots_parser.cpp), the loc    *)
(* and namespace handling of XmlParser::ParseSitemap and                  *)
(* XmlParser::IsGzipped (src/src/xml_parser.cpp).  DiscoverSitemapUrls is *)
(* also modelled for several calls running at once on the one cache.     *)
(*                                                                         *)
(* A URL is a sequence of tokens; Text(url) is the character string the   *)
(* tokens spell, on which the string tests of the code (find, ends-with,  *)
(* tolower) are computed.  Within one call the web is static: the answer  *)
(* of a URL is drawn from Options(url) the first time the URL is fetched  *)
(* and is the same on every later fetch of that call.                     *)
(***************************************************************************)
EXTENDS Integers, Sequences, FiniteSets, TLC

VARIABLES
    pc,                   \* position in SitemapBind / SitemapInitGlobal / SitemapScan
    bind,                 \* SitemapBindData
    idx,                  \* index of the base URL the loop of SitemapInitGlobal is at
    sitemap_urls,         \* candidates of the current base URL (DiscoverSitemapUrls)
    stack,                \* pending FetchSitemap calls: the rest of the depth-first walk
    entries,              \* SitemapGlobalState::entries
    errors,               \* SitemapGlobalState::errors
    current_idx,          \* SitemapGlobalState::current_idx
    fetch_complete,       \* SitemapGlobalState::fetch_complete
    initial_error_count,  \* local of SitemapInitGlobal
    initial_entry_count,  \* local of SitemapInitGlobal
    thrown,               \* <<>>, or <<message>> of the IOException raised
    output,               \* rows handed to the caller by SitemapScan, in order
    cache,                \* SitemapCache::discovered_sitemaps
    web,                  \* the answers of the URLs fetched so far
    fetchLog,             \* history: every HttpClient::Fetch issued, in order
    candLog,              \* history: the list each DiscoverSitemapUrls returned
    nThrown,              \* history: number of IOExceptions raised
    nAppended,            \* history: number of entries ever appended to entries
    truncated,            \* history: the FetchSitemap calls that returned at the depth check
    lastBatch,            \* number of rows of the last SitemapScan call
    ncalls,               \* number of sitemap_urls() calls the process has started
    discoveries,          \* history: every DiscoverSitemapUrls of the process, in order,
                          \*   with the strategy (pc) it returned from
    rc,                   \* HttpClient::Fetch: the RetryConfig of the call
    attempt,              \* HttpClient::Fetch: attempts made so far
    outcomes,             \* HttpClient::Fetch: outcome of each attempt, in order
    waits,                \* HttpClient::Fetch: the wait (ms) slept before each retry
    fstate,               \* HttpClient::Fetch: "idle", "running", "done"
    fresult,              \* HttpClient::Fetch: the HttpResponse returned
    bf_pc,                \* bruteforce_find_sitemap: "idle", "row", "probe", "returned"
    bf_args,              \* bruteforce_find_sitemap: the input rows (args.data[0])
    bf_i,                 \* bruteforce_find_sitemap: the row the loop is at (i, from 1)
    bf_base,              \* bruteforce_find_sitemap: base_url of the row
    bf_f,                 \* bruteforce_find_sitemap: position in filenames
    bf_t,                 \* bruteforce_find_sitemap: position in filetypes
    bf_result,            \* bruteforce_find_sitemap: the result vector filled so far
    bf_log,               \* history: the fetches issued for the latest row, in order
    fn,                   \* the function applied to arg, "none" before
    arg,                  \* the argument a function of the code is applied to
    ret,                  \* what the function returned
    inv                   \* concurrent invocations: each one's DiscoverSitemapUrls

orchVars == <<pc, bind, idx, sitemap_urls, stack, entries, errors, current_idx,
              fetch_complete, initial_error_count, initial_entry_count, thrown,
              output, cache, web, fetchLog, candLog, nThrown, nAppended, truncated,
              lastBatch, ncalls, discoveries>>
fetchVars == <<rc, attempt, outcomes, waits, fstate, fresult>>
probeVars == <<bf_pc, bf_args, bf_i, bf_base, bf_f, bf_t, bf_result, bf_log>>
pureVars == <<fn, arg, ret>>
concVars == <<inv>>
vars == <<orchVars, fetchVars, probeVars, pureVars, concVars>>

---------------------------------------------------------------------------
(* Bounds of the model *)

MaxBases == 2          \* longest base_urls list
MaxDepthBound == 2     \* largest max_depth option
VectorSize == 2        \* rows per SitemapScan batch (STANDARD_VECTOR_SIZE)
MaxRetriesBound == 2   \* largest max_retries option
MaxRows == 2           \* most rows of one bruteforce_find_sitemap call
MaxCalls == 2          \* most sitemap_urls() calls of one process
MaxRobotsLines == 2    \* most lines of a robots.txt given to the parser
MaxElements == 2       \* most <url> or <sitemap> elements of a parsed document
MaxChildren == 2       \* most <sitemap> elements of one sitemap index of the web
MaxUrlTokens == 4
MaxInvocations == 2
MaxGzipUrlTokens == 2      \* longest URL given to IsSitemapUrl, in tokens

---------------------------------------------------------------------------
(* Strings *)

\* The characters each token spells.
TokenText ==
    [t \in {"a", "b", "/", "robots.txt", "sitemap.xml", "sitemap_index.xml",
            "c1.xml", "c2.XML.GZ", "d1.xml", "p1", "p2", "p3",
            "e", "https://", "sitemap", "sitemap_index", ".", "xml", "txt",
            "SiteMap", "?q", ".gz"} |->
       CASE t = "a" -> <<"h", ":", "/", "/", "a">>
         [] t = "b" -> <<"h", ":", "/", "/", "b">>
         [] t = "/" -> <<"/">>
         [] t = "robots.txt" -> <<"r", "o", "b", "o", "t", "s", ".", "t", "x", "t">>
         [] t = "sitemap.xml" -> <<"s", "i", "t", "e", "m", "a", "p", ".", "x", "m", "l">>
         [] t = "sitemap_index.xml" ->
              <<"s", "i", "t", "e", "m", "a", "p", "_", "i", "n", "d", "e", "x",
                ".", "x", "m", "l">>
         [] t = "c1.xml" -> <<"c", "1", ".", "x", "m", "l">>
         [] t = "c2.XML.GZ" -> <<"c", "2", ".", "X", "M", "L", ".", "G", "Z">>
         [] t = "d1.xml" -> <<"d", "1", ".", "x", "m", "l">>
         [] t = "p1" -> <<"p", "1">>
         [] t = "p2" -> <<"p", "2">>
         [] t = "p3" -> <<"p", "3">>
         [] t = "e" -> <<"e">>
         [] t = "https://" -> <<"h", "s", ":", "/", "/">>
         [] t = "sitemap" -> <<"s", "i", "t", "e", "m", "a", "p">>
         [] t = "sitemap_index" ->
              <<"s", "i", "t", "e", "m", "a", "p", "_", "i", "n", "d", "e", "x">>
         [] t = "." -> <<".">>
         [] t = "xml" -> <<"x", "m", "l">>
         [] t = "txt" -> <<"t", "x", "t">>
         [] t = "SiteMap" -> <<"S", "i", "t", "e", "M", "a", "p">>
         [] t = "?q" -> <<"?", "q">>
         [] t = ".gz" -> <<".", "g", "z">>]

RECURSIVE Text(_)
Text(url) == IF url = <<>> THEN <<>> ELSE TokenText[Head(url)] \o Text(Tail(url))

\* std::tolower on one character
ToLowerChar(c) ==
    CASE c = "X" -> "x" [] c = "M" -> "m" [] c = "L" -> "l"
      [] c = "G" -> "g" [] c = "Z" -> "z" [] c = "T" -> "t"
      [] c = "E" -> "e" [] c = "S" -> "s" [] c = "I" -> "i"
      [] c = "A" -> "a" [] c = "P" -> "p" [] c = "R" -> "r"
      [] c = "O" -> "o" [] c = "B" -> "b" [] OTHER -> c

ToLower(s) == [i \in 1..Len(s) |-> ToLowerChar(s[i])]

\* s.find(sub) != npos
Contains(s, sub) ==
    \E i \in 1..(Len(s) - Len(sub) + 1) : SubSeq(s, i, i + Len(sub) - 1) = sub

S_sitemap == <<"s", "i", "t", "e", "m", "a", "p">>
S_xml == <<".", "x", "m", "l">>
S_xml_gz == <<".", "x", "m", "l", ".", "g", "z">>
S_gz == <<".", "g", "z">>
S_gzip == <<"g", "z", "i", "p">>
S_scheme == <<":", "/", "/">>

---------------------------------------------------------------------------
(* URLs, documents and the web *)

A == <<"a">>
B == <<"b", "/">>
C1 == <<"a", "/", "c1.xml">>
C2 == <<"a", "/", "c2.XML.GZ">>
D1 == <<"a", "/", "d1.xml">>
SX_A == <<"a", "/", "sitemap.xml">>
SI_A == <<"a", "/", "sitemap_index.xml">>
ROBOTS_A == <<"a", "/", "robots.txt">>
SX_B == <<"b", "/", "sitemap.xml">>
ROBOTS_B == <<"b", "/", "robots.txt">>

\* base URLs a call may be given (after the scheme is prepended by SitemapBind)
BaseUrls == {A, B, SX_A}

\* SitemapEntry as parsed from one <url> element
Entry(u, lm) == [url |-> u, lastmod |-> lm, changefreq |-> "", priority |-> ""]
E1 == Entry(<<"a", "/", "p1">>, "2024")
E2 == Entry(<<"a", "/", "p2">>, "")
E3 == Entry(<<"a", "/", "p3">>, "2025")
EBlank == Entry(<<>>, "2023")     \* a <url> whose loc is missing or empty

\* one line of a robots.txt, already trimmed: directive and remainder
Line(d, v) == [dir |-> d, value |-> v]

Doc(k, lines, links, urls, sitemaps) ==
    [kind |-> k, lines |-> lines, links |-> links, urls |-> urls, sitemaps |-> sitemaps]
Garbage == Doc("garbage", <<>>, <<>>, <<>>, <<>>)
Robots(lines) == Doc("robots", lines, <<>>, <<>>, <<>>)
Html(links) == Doc("html", <<>>, links, <<>>, <<>>)
Urlset(urls) == Doc("urlset", <<>>, <<>>, urls, <<>>)
Index(sitemaps) == Doc("sitemapindex", <<>>, <<>>, <<>>, sitemaps)

CT_xml == <<"t", "/", "x", "m", "l">>
CT_gzip == <<"a", "/", "g", "z", "i", "p">>

\* HttpResponse
Response(ok, code, ct, gz, doc, err) ==
    [success |-> ok, status_code |-> code, content_type |-> ct,
     body |-> [gz |-> gz, doc |-> doc], error |-> err]
Failed == Response(FALSE, 404, <<>>, "none", Garbage, "HTTP 404")
Plain(doc) == Response(TRUE, 200, CT_xml, "none", doc, "")
Gzip(gz, doc) == Response(TRUE, 200, CT_gzip, gz, doc, "")

\* The answers a URL may give; the web draws one the first time it is fetched.
Options(url) ==
    CASE url = ROBOTS_A ->
           {Failed,
            Plain(Robots(<<Line("comment", <<>>), Line("sitemap", <<>>)>>)),
            Plain(Robots(<<Line("sitemap", C1), Line("other", D1), Line("sitemap", C2)>>))}
      [] url = SX_A ->
           {Failed, Plain(Garbage), Plain(Urlset(<<E1, EBlank, E2>>)),
            Plain(Index(<<C1, C2>>))}
      [] url = SI_A -> {Failed, Plain(Index(<<C1, C1>>))}
      [] url = A -> {Failed, Plain(Html(<<>>)), Plain(Html(<<<<"/", "c1.xml">>>>))}
      [] url = C1 -> {Failed, Plain(Urlset(<<E1>>)), Plain(Index(<<D1>>))}
      [] url = C2 -> {Failed, Gzip("bad", Garbage), Gzip("ok", Urlset(<<E2, E1>>))}
      [] url = D1 -> {Failed, Plain(Urlset(<<E3>>)), Plain(Index(<<C1>>))}
      [] url = ROBOTS_B -> {Failed, Plain(Robots(<<Line("sitemap", D1)>>))}
      [] url = SX_B -> {Failed, Plain(Urlset(<<E3>>))}
      [] OTHER -> {Failed}

\* The answer of url: the recorded one, or any of Options(url) on a first fetch.
Answers(url) == IF url \in DOMAIN web THEN {web[url]} ELSE Options(url)

---------------------------------------------------------------------------
(* Pure functions of the code *)

\* BuildUrl (sitemap_function.cpp)
RECURSIVE StripSlashes(_)
StripSlashes(base) ==
    IF base # <<>> /\ base[Len(base)] = "/"
    THEN StripSlashes(SubSeq(base, 1, Len(base) - 1))
    ELSE base

BuildUrl(base_url, path) ==
    IF path = <<>> \/ Head(path) # "/"
    THEN StripSlashes(base_url) \o <<"/">> \o path
    ELSE StripSlashes(base_url) \o path

\* faulty variant: no URL is taken for a sitemap file
IsSitemapUrl_Never(url) == FALSE

IsSitemapUrl(url) ==
    LET lower_url == ToLower(Text(url))
    IN  Contains(lower_url, S_sitemap)
        /\ (Contains(lower_url, S_xml) \/ Contains(lower_url, S_xml_gz))

\* std::isspace
IsSpace(c) == c \in {" ", "\t", "\n", "\r", "\f"}

SetMin(S) == CHOOSE x \in S : \A y \in S : x <= y
SetMax(S) == CHOOSE x \in S : \A y \in S : x >= y

\* faulty variant: the string as it is
Trim_Nothing(str) == str

\* Trim (robots_parser.cpp): the string from its first to its last non-space character
Trim(str) ==
    LET kept == {i \in 1..Len(str) : ~IsSpace(str[i])}
    IN  IF kept = {} THEN <<>> ELSE SubSeq(str, SetMin(kept), SetMax(kept))

\* faulty variant: the prefix is compared letter case and all
StartsWithCaseInsensitive_Exact(str, prefix) ==
    Len(str) >= Len(prefix) /\ \A i \in 1..Len(prefix) : str[i] = prefix[i]

StartsWithCaseInsensitive(str, prefix) ==
    /\ Len(str) >= Len(prefix)
    /\ \A i \in 1..Len(prefix) : ToLowerChar(str[i]) = ToLowerChar(prefix[i])

\* std::getline until the stream is exhausted: the pieces between line feeds
RECURSIVE GetLines(_)
GetLines(s) ==
    LET feeds == {i \in 1..Len(s) : s[i] = "\n"}
    IN  IF s = <<>> THEN <<>>
        ELSE IF feeds = {} THEN <<s>>
        ELSE <<SubSeq(s, 1, SetMin(feeds) - 1)>>
             \o GetLines(SubSeq(s, SetMin(feeds) + 1, Len(s)))

S_sitemap_prefix == <<"s", "i", "t", "e", "m", "a", "p", ":">>

\* the URL one line of robots.txt contributes: <<url>>, or <<>> for none
LineSitemaps(raw) ==
    LET line == Trim(raw)
        url == Trim(SubSeq(line, Len(S_sitemap_prefix) + 1, Len(line)))
    IN  IF line = <<>> \/ line[1] = "#" THEN <<>>
        ELSE IF StartsWithCaseInsensitive(line, S_sitemap_prefix) /\ url # <<>>
        THEN <<url>>
        ELSE <<>>

\* RobotsParser::ParseSitemapUrls on the text of the file
RECURSIVE CollectSitemaps(_)
CollectSitemaps(lines) ==
    IF lines = <<>> THEN <<>>
    ELSE LineSitemaps(Head(lines)) \o CollectSitemaps(Tail(lines))

ParseSitemapUrlsText(robots_txt_content) == CollectSitemaps(GetLines(robots_txt_content))

\* RobotsParser::ParseSitemapUrls on the trimmed lines of the file
ParseSitemapUrls(body) ==
    LET keep(l) == l.dir = "sitemap" /\ l.value # <<>>
        kept == SelectSeq(IF body.gz = "none" THEN body.doc.lines ELSE <<>>, keep)
    IN  [i \in 1..Len(kept) |-> kept[i].value]

\* XmlParser::FindSitemapInHtml
FindSitemapInHtml(body) == IF body.gz = "none" THEN body.doc.links ELSE <<>>

\* XmlParser::IsGzipped
IsGzipped(url, content_type) ==
    LET t == Text(url)
    IN  \/ Len(t) >= 3 /\ SubSeq(ToLower(t), Len(t) - 2, Len(t)) = S_gz
        \/ Contains(content_type, S_gzip)

\* XmlParser::DecompressGzip: the body unchanged without the gzip magic, the
\* inflated content of a valid stream, the empty string on an inflate error.
EmptyBody == [gz |-> "none", doc |-> Doc("empty", <<>>, <<>>, <<>>, <<>>)]
DecompressGzip(body) ==
    CASE body.gz = "none" -> body
      [] body.gz = "ok" -> [gz |-> "none", doc |-> body.doc]
      [] OTHER -> EmptyBody

\* XmlParser::ParseSitemap
\* the characters find_first_not_of(" \t\n\r") skips
LocSpace == {" ", "\t", "\n", "\r"}

\* the positions of loc that hold something else
LocKept(loc) == {i \in 1..Len(loc) : loc[i] \notin LocSpace}

\* the loc of a <url>: trimmed if start and end were found, else left as it is
TrimUrlLoc(loc) ==
    IF LocKept(loc) # {}
    THEN SubSeq(loc, SetMin(LocKept(loc)), SetMax(LocKept(loc)))
    ELSE loc

\* the entries of the <url> elements of one namespace, in document order
UrlsOf(elements, ns) ==
    LET found == SelectSeq(elements, LAMBDA e : e.ns = ns)
        entry(e) == Entry(TrimUrlLoc(e.loc), e.lastmod)
        entries_ == [i \in 1..Len(found) |-> entry(found[i])]
    IN  SelectSeq(entries_, LAMBDA e : e.url # <<>>)

\* the locs of the <sitemap> elements of one namespace: pushed only if start and end
\* were found
SitemapsOf(elements, ns) ==
    LET found == SelectSeq(elements, LAMBDA e : e.ns = ns /\ LocKept(e.loc) # {})
    IN  [i \in 1..Len(found) |->
           SubSeq(found[i].loc, SetMin(LocKept(found[i].loc)), SetMax(LocKept(found[i].loc)))]

ParseResult(ok, type, urls, sitemaps, err) ==
    [success |-> ok, type |-> type, urls |-> urls, sitemaps |-> sitemaps, error |-> err]
ParseSitemap(content) ==
    LET doc == content.doc
        nonEmptyLoc(e) == e.url # <<>>
        nonEmpty(u) == u # <<>>
    IN  CASE content.gz # "none" \/ doc.kind \in {"garbage", "empty", "robots"} ->
               ParseResult(FALSE, "URLSET", <<>>, <<>>, "Failed to parse XML")
          [] doc.kind = "html" ->
               ParseResult(FALSE, "URLSET", <<>>, <<>>, "Unknown root element: html")
          [] doc.kind = "sitemapindex" ->
               ParseResult(TRUE, "SITEMAPINDEX", <<>>, SelectSeq(doc.sitemaps, nonEmpty), "")
          [] OTHER ->
               ParseResult(TRUE, "URLSET", SelectSeq(doc.urls, nonEmptyLoc), <<>>, "")


\* faulty variant: the results of both namespace variants are put together
ParseSitemapXml_Merged(xml_content) ==
    IF xml_content.root = "sitemapindex"
    THEN ParseResult(TRUE, "SITEMAPINDEX", <<>>,
                     SitemapsOf(xml_content.elements, "sm")
                       \o SitemapsOf(xml_content.elements, "sm2"), "")
    ELSE IF xml_content.root = "urlset"
    THEN ParseResult(TRUE, "URLSET",
                     UrlsOf(xml_content.elements, "sm")
                       \o UrlsOf(xml_content.elements, "sm2"), <<>>, "")
    ELSE ParseResult(FALSE, "URLSET", <<>>, <<>>, "Unknown root element")

\* XmlParser::ParseSitemap on a well-formed document given by its root name and its
\* <url> or <sitemap> elements: the first namespace variant that yields anything
ParseSitemapXml(xml_content) ==
    IF xml_content.root = "sitemapindex"
    THEN ParseResult(TRUE, "SITEMAPINDEX", <<>>,
                     IF SitemapsOf(xml_content.elements, "sm") # <<>>
                     THEN SitemapsOf(xml_content.elements, "sm")
                     ELSE SitemapsOf(xml_content.elements, "sm2"), "")
    ELSE IF xml_content.root = "urlset"
    THEN ParseResult(TRUE, "URLSET",
                     IF UrlsOf(xml_content.elements, "sm") # <<>>
                     THEN UrlsOf(xml_content.elements, "sm")
                     ELSE UrlsOf(xml_content.elements, "sm2"), <<>>, "")
    ELSE ParseResult(FALSE, "URLSET", <<>>, <<>>, "Unknown root element")

---------------------------------------------------------------------------
(* sitemap_urls(): SitemapBind, SitemapInitGlobal, SitemapScan *)

NoBind == [base_urls |-> <<>>, follow_robots |-> TRUE, max_depth |-> 3,
           ignore_errors |-> FALSE]

BaseLists == UNION {[1..n -> BaseUrls] : n \in 1..MaxBases}
DepthChoices == -1..MaxDepthBound

Frame(url, depth) == [url |-> url, depth |-> depth]
Fetched(phase, url, depth) == [phase |-> phase, url |-> url, depth |-> depth, base |-> idx]

\* one HttpClient::Fetch of the orchestrator: the answer is recorded, the fetch logged
Fetch(phase, url, depth, response) ==
    /\ response \in Answers(url)
    /\ web' = IF url \in DOMAIN web THEN web ELSE (url :> response) @@ web
    /\ fetchLog' = Append(fetchLog, Fetched(phase, url, depth))

\* faulty variant: the cache never has the entry
CacheGet_Miss(base_url) == <<>>

\* SitemapCache::Get and SitemapCache::Set
CacheGet(base_url) == IF base_url \in DOMAIN cache THEN cache[base_url] ELSE <<>>
CacheSet(base_url, sitemaps) ==
    [k \in DOMAIN cache \cup {base_url} |-> IF k = base_url THEN sitemaps ELSE cache[k]]

InitOrch ==
    /\ pc = "bind"
    /\ bind = NoBind
    /\ idx = 0
    /\ sitemap_urls = <<>>
    /\ stack = <<>>
    /\ entries = <<>>
    /\ errors = <<>>
    /\ current_idx = 0
    /\ fetch_complete = FALSE
    /\ initial_error_count = 0
    /\ initial_entry_count = 0
    /\ thrown = <<>>
    /\ output = <<>>
    /\ cache = <<>>
    /\ web = <<>>
    /\ fetchLog = <<>>
    /\ candLog = <<>>
    /\ nThrown = 0
    /\ nAppended = 0
    /\ truncated = <<>>
    /\ lastBatch = 0
    /\ ncalls = 1
    /\ discoveries = <<>>

\* SitemapBind: the arguments of the call; SitemapInitGlobal then starts its loop
BindWith(lists, depths) ==
    /\ pc = "bind"
    /\ \E urls \in lists, fr \in BOOLEAN, md \in depths, ie \in BOOLEAN :
         bind' = [base_urls |-> urls, follow_robots |-> fr, max_depth |-> md,
                  ignore_errors |-> ie]
    /\ idx' = 1
    /\ pc' = "loop"
    /\ UNCHANGED <<sitemap_urls, stack, entries, errors, current_idx, fetch_complete,
                   initial_error_count, initial_entry_count, thrown, output, cache,
                   web, fetchLog, candLog, nThrown, nAppended, truncated, lastBatch,
                   ncalls, discoveries>>

SitemapBind == BindWith(BaseLists, DepthChoices)

\* DiscoverSitemapUrls returns list: SitemapInitGlobal notes the counts and starts
\* the walk of the candidates at depth 0
DiscoverReturn(list) ==
    /\ sitemap_urls' = list
    /\ candLog' = Append(candLog, list)
    /\ initial_error_count' = Len(errors)
    /\ initial_entry_count' = Len(entries)
    /\ stack' = [i \in 1..Len(list) |-> Frame(list[i], 0)]
    /\ discoveries' = Append(discoveries,
                              [call |-> ncalls, base_url |-> bind.base_urls[idx],
                               follow_robots |-> bind.follow_robots,
                               probed |-> pc # "loop", via |-> pc, result |-> list])
    /\ pc' = "fetch"

\* DiscoverSitemapUrls moves on to its next strategy
DiscoverNext(next) ==
    /\ pc' = next
    /\ UNCHANGED <<sitemap_urls, candLog, initial_error_count, initial_entry_count, stack,
                   discoveries>>

\* faulty variant: robots.txt is tried whatever follow_robots says
FirstStrategy_AlwaysRobots == "robots"

\* The strategy DiscoverSitemapUrls starts with for a base URL that is neither a
\* sitemap file nor cached
FirstStrategy == IF bind.follow_robots THEN "robots" ELSE "sitemap_xml"

\* DiscoverSitemapUrls up to its first fetch: a direct sitemap URL, a cache hit
DiscoverStart ==
    /\ pc = "loop"
    /\ idx <= Len(bind.base_urls)
    /\ LET base_url == bind.base_urls[idx]
       IN  IF IsSitemapUrl(base_url)
           THEN DiscoverReturn(<<base_url>>)
           ELSE IF CacheGet(base_url) # <<>>
                THEN DiscoverReturn(CacheGet(base_url))
                ELSE DiscoverNext(FirstStrategy)
    /\ UNCHANGED <<bind, idx, entries, errors, current_idx, fetch_complete, thrown,
                   output, cache, web, fetchLog, nThrown, nAppended, truncated, lastBatch,
                   ncalls>>

\* what the robots.txt answer yields
RobotsCandidates(response) ==
    IF response.success THEN ParseSitemapUrls(response.body) ELSE <<>>

\* 1. Try robots.txt
DiscoverRobots ==
    /\ pc = "robots"
    /\ LET base_url == bind.base_urls[idx]
           robots_url == BuildUrl(base_url, <<"/", "robots.txt">>)
       IN  \E response \in Answers(robots_url) :
             /\ Fetch("robots", robots_url, 0, response)
             /\ IF RobotsCandidates(response) # <<>>
                THEN /\ cache' = CacheSet(base_url, RobotsCandidates(response))
                     /\ DiscoverReturn(RobotsCandidates(response))
                ELSE /\ cache' = cache
                     /\ DiscoverNext("sitemap_xml")
    /\ UNCHANGED <<bind, idx, entries, errors, current_idx, fetch_complete, thrown,
                   output, nThrown, nAppended, truncated, lastBatch, ncalls>>

\* what a probe of a conventional location yields
ProbeCandidates(url, response) == IF response.success THEN <<url>> ELSE <<>>

\* 2. Try /sitemap.xml
DiscoverSitemapXml ==
    /\ pc = "sitemap_xml"
    /\ LET base_url == bind.base_urls[idx]
           sitemap_xml_url == BuildUrl(base_url, <<"/", "sitemap.xml">>)
       IN  \E response \in Answers(sitemap_xml_url) :
             /\ Fetch("sitemap_xml", sitemap_xml_url, 0, response)
             /\ IF ProbeCandidates(sitemap_xml_url, response) # <<>>
                THEN /\ cache' = CacheSet(base_url, ProbeCandidates(sitemap_xml_url, response))
                     /\ DiscoverReturn(ProbeCandidates(sitemap_xml_url, response))
                ELSE /\ cache' = cache
                     /\ DiscoverNext("sitemap_index")
    /\ UNCHANGED <<bind, idx, entries, errors, current_idx, fetch_complete, thrown,
                   output, nThrown, nAppended, truncated, lastBatch, ncalls>>

\* 3. Try /sitemap_index.xml
DiscoverSitemapIndex ==
    /\ pc = "sitemap_index"
    /\ LET base_url == bind.base_urls[idx]
           sitemap_index_url == BuildUrl(base_url, <<"/", "sitemap_index.xml">>)
       IN  \E response \in Answers(sitemap_index_url) :
             /\ Fetch("sitemap_index", sitemap_index_url, 0, response)
             /\ IF ProbeCandidates(sitemap_index_url, response) # <<>>
                THEN /\ cache' = CacheSet(base_url,
                                          ProbeCandidates(sitemap_index_url, response))
                     /\ DiscoverReturn(ProbeCandidates(sitemap_index_url, response))
                ELSE /\ cache' = cache
                     /\ DiscoverNext("homepage")
    /\ UNCHANGED <<bind, idx, entries, errors, current_idx, fetch_complete, thrown,
                   output, nThrown, nAppended, truncated, lastBatch, ncalls>>

\* a relative href of the homepage made absolute
Absolute(base_url, href) ==
    IF Contains(Text(href), S_scheme)
    THEN href
    ELSE IF Text(href) # <<>> /\ Head(Text(href)) = "/"
         THEN base_url \o href
         ELSE base_url \o <<"/">> \o href

HomepageCandidates(base_url, response) ==
    IF response.success
    THEN LET html_sitemaps == FindSitemapInHtml(response.body)
         IN  [i \in 1..Len(html_sitemaps) |-> Absolute(base_url, html_sitemaps[i])]
    ELSE <<>>

\* faulty variant: the empty result is stored like any other
ExhaustedCache_Stored(base_url) == CacheSet(base_url, <<>>)

\* the cache after a discovery that found nothing: as it was
ExhaustedCache(base_url) == cache

\* 4. Try parsing HTML from homepage; nothing found returns the empty list, uncached
DiscoverHomepage ==
    /\ pc = "homepage"
    /\ LET base_url == bind.base_urls[idx]
       IN  \E response \in Answers(base_url) :
             /\ Fetch("homepage", base_url, 0, response)
             /\ IF HomepageCandidates(base_url, response) # <<>>
                THEN /\ cache' = CacheSet(base_url, HomepageCandidates(base_url, response))
                     /\ DiscoverReturn(HomepageCandidates(base_url, response))
                ELSE /\ cache' = ExhaustedCache(base_url)
                     /\ DiscoverReturn(<<>>)
    /\ UNCHANGED <<bind, idx, entries, errors, current_idx, fetch_complete, thrown,
                   output, nThrown, nAppended, truncated, lastBatch, ncalls>>


\* an entry of SitemapGlobalState::errors
Error(kind, url, detail) == [kind |-> kind, url |-> url, detail |-> detail]

\* faulty variant: the bound is checked one level late
DepthExceeded_OneTooDeep(current_depth) == current_depth > bind.max_depth + 1

\* faulty variant: no depth is too deep
DepthExceeded_Never(current_depth) == FALSE

\* if (current_depth > bind_data.max_depth) return;
DepthExceeded(current_depth) == current_depth > bind.max_depth

\* faulty variant: a failed fetch is passed over without recording an error
FetchSitemapEffect_SilentFailure(sitemap_url, current_depth, response) ==
    IF ~response.success
    THEN [errs |-> <<>>, ents |-> <<>>, calls |-> <<>>]
    ELSE LET gzipped == IsGzipped(sitemap_url, response.content_type)
             content == IF gzipped THEN DecompressGzip(response.body) ELSE response.body
             result == ParseSitemap(content)
         IN  IF gzipped /\ content = EmptyBody
             THEN [errs |-> <<Error("decompress", sitemap_url, "")>>, ents |-> <<>>,
                   calls |-> <<>>]
             ELSE IF ~result.success
             THEN [errs |-> <<Error("parse", sitemap_url, result.error)>>, ents |-> <<>>,
                   calls |-> <<>>]
             ELSE IF result.type = "URLSET"
             THEN [errs |-> <<>>, ents |-> result.urls, calls |-> <<>>]
             ELSE [errs |-> <<>>, ents |-> <<>>,
                   calls |-> [i \in 1..Len(result.sitemaps) |->
                                Frame(result.sitemaps[i], current_depth + 1)]]

\* FetchSitemap after its fetch: the error it records, the entries it appends, the
\* recursive calls it makes, in order
Effect(errs, ents, calls) == [errs |-> errs, ents |-> ents, calls |-> calls]
FetchSitemapEffect(sitemap_url, current_depth, response) ==
    IF ~response.success
    THEN Effect(<<Error("fetch", sitemap_url, response.error)>>, <<>>, <<>>)
    ELSE LET gzipped == IsGzipped(sitemap_url, response.content_type)
             content == IF gzipped THEN DecompressGzip(response.body) ELSE response.body
             result == ParseSitemap(content)
         IN  IF gzipped /\ content = EmptyBody
             THEN Effect(<<Error("decompress", sitemap_url, "")>>, <<>>, <<>>)
             ELSE IF ~result.success
             THEN Effect(<<Error("parse", sitemap_url, result.error)>>, <<>>, <<>>)
             ELSE IF result.type = "URLSET"
             THEN Effect(<<>>, result.urls, <<>>)
             ELSE Effect(<<>>, <<>>,
                         [i \in 1..Len(result.sitemaps) |->
                            Frame(result.sitemaps[i], current_depth + 1)])

\* faulty variant: the children of an index are put behind the calls already pending
Continue_BreadthFirst(eff, rest) == rest \o eff.calls

\* faulty variant: an error ends the walk of the siblings still to come
Continue_AbortOnError(eff, rest) == IF eff.errs # <<>> THEN <<>> ELSE eff.calls \o rest

\* The calls still to run after one FetchSitemap body: its recursive calls, in
\* document order, then the rest of the loops of its callers.  An error returns
\* from this call alone.
Continue(eff, rest) == eff.calls \o rest

\* One call of FetchSitemap, up to its recursive calls: these run next, in order,
\* before the rest of the caller's loop.
FetchSitemap ==
    /\ pc = "fetch"
    /\ stack # <<>>
    /\ LET sitemap_url == Head(stack).url
           current_depth == Head(stack).depth
       IN  IF DepthExceeded(current_depth)
           THEN /\ stack' = Tail(stack)
                /\ truncated' = Append(truncated, Fetched("sitemap", sitemap_url, current_depth))
                /\ UNCHANGED <<entries, errors, web, fetchLog, nAppended>>
           ELSE \E response \in Answers(sitemap_url) :
                  LET eff == FetchSitemapEffect(sitemap_url, current_depth, response)
                  IN  /\ Fetch("sitemap", sitemap_url, current_depth, response)
                      /\ errors' = errors \o eff.errs
                      /\ entries' = entries \o eff.ents
                      /\ nAppended' = nAppended + Len(eff.ents)
                      /\ stack' = Continue(eff, Tail(stack))
                      /\ truncated' = truncated
    /\ UNCHANGED <<pc, bind, idx, sitemap_urls, current_idx, fetch_complete,
                   initial_error_count, initial_entry_count, thrown, output, cache,
                   candLog, nThrown, lastBatch, ncalls, discoveries>>

FoundUrls == Len(entries) > initial_entry_count
\* faulty variant: any error on record counts, also one of an earlier base URL
HadErrors_AnyError == errors # <<>>
HadErrors == Len(errors) > initial_error_count

\* the IOException: "Failed to find sitemap for " + base_url [+ ": " + last error]
ErrorMessage(base_url) ==
    [base |-> base_url,
     last |-> IF HadErrors /\ errors # <<>> THEN <<errors[Len(errors)]>> ELSE <<>>]

\* faulty variant: ignore_errors is not consulted
MustThrow_IgnoreFlag == ~FoundUrls

\* faulty variant: a base URL with errors fails as well, whatever it contributed
MustThrow_OnErrors == (~FoundUrls \/ HadErrors) /\ ~bind.ignore_errors

\* if (!found_urls && !bind_data.ignore_errors) throw
MustThrow == ~FoundUrls /\ ~bind.ignore_errors

\* faulty variant: the failure is noted and the loop goes on to the next base URL
CheckBase_Continue ==
    /\ pc = "fetch"
    /\ stack = <<>>
    /\ IF MustThrow
       THEN /\ thrown' = <<ErrorMessage(bind.base_urls[idx])>>
            /\ nThrown' = nThrown + 1
       ELSE UNCHANGED <<thrown, nThrown>>
    /\ idx' = idx + 1
    /\ pc' = "loop"
    /\ UNCHANGED <<bind, sitemap_urls, stack, current_idx, fetch_complete, entries,
                   errors, initial_error_count, initial_entry_count, output, cache,
                   web, fetchLog, candLog, nAppended, truncated, lastBatch, ncalls,
                   discoveries>>

\* faulty variant: the failure leaves the collector as it is
CheckBase_KeepState ==
    /\ pc = "fetch"
    /\ stack = <<>>
    /\ IF MustThrow
       THEN /\ thrown' = <<ErrorMessage(bind.base_urls[idx])>>
            /\ nThrown' = nThrown + 1
            /\ pc' = "failed"
            /\ idx' = idx
       ELSE /\ idx' = idx + 1
            /\ pc' = "loop"
            /\ UNCHANGED <<thrown, nThrown>>
    /\ UNCHANGED <<bind, sitemap_urls, stack, current_idx, fetch_complete, entries,
                   errors, initial_error_count, initial_entry_count, output, cache,
                   web, fetchLog, candLog, nAppended, truncated, lastBatch, ncalls,
                   discoveries>>

\* The end of the loop body of SitemapInitGlobal.  The exception leaves
\* SitemapInitGlobal: its unique_ptr state is destroyed and never returned.
CheckBase ==
    /\ pc = "fetch"
    /\ stack = <<>>
    /\ IF MustThrow
       THEN /\ thrown' = <<ErrorMessage(bind.base_urls[idx])>>
            /\ nThrown' = nThrown + 1
            /\ entries' = <<>>
            /\ errors' = <<>>
            /\ pc' = "failed"
            /\ idx' = idx
       ELSE /\ idx' = idx + 1
            /\ pc' = "loop"
            /\ UNCHANGED <<thrown, nThrown, entries, errors>>
    /\ UNCHANGED <<bind, sitemap_urls, stack, current_idx, fetch_complete,
                   initial_error_count, initial_entry_count, output, cache, web,
                   fetchLog, candLog, nAppended, truncated, lastBatch, ncalls, discoveries>>

\* state->fetch_complete = true; return state;
InitGlobalReturn ==
    /\ pc = "loop"
    /\ idx > Len(bind.base_urls)
    /\ fetch_complete' = TRUE
    /\ pc' = "scan"
    /\ UNCHANGED <<bind, idx, sitemap_urls, stack, entries, errors, current_idx,
                   initial_error_count, initial_entry_count, thrown, output, cache,
                   web, fetchLog, candLog, nThrown, nAppended, truncated, lastBatch,
                   ncalls, discoveries>>

\* a row of the output: empty optional fields are NULL (<<>>)
Nullable(s) == IF s = "" THEN <<>> ELSE <<s>>
Row(entry) == [url |-> entry.url, lastmod |-> Nullable(entry.lastmod),
               changefreq |-> Nullable(entry.changefreq),
               priority |-> Nullable(entry.priority)]

\* faulty variant: all the remaining entries go into one batch
BatchCount_Unbounded == Len(entries) - current_idx

\* number of rows of the next batch
BatchCount ==
    IF Len(entries) - current_idx < VectorSize
    THEN Len(entries) - current_idx
    ELSE VectorSize

\* SitemapScan: one batch
SitemapScan ==
    /\ pc = "scan"
    /\ output' = output \o [i \in 1..BatchCount |-> Row(entries[current_idx + i])]
    /\ current_idx' = current_idx + BatchCount
    /\ lastBatch' = BatchCount
    /\ UNCHANGED <<pc, bind, idx, sitemap_urls, stack, entries, errors, fetch_complete,
                   initial_error_count, initial_entry_count, thrown, cache, web,
                   fetchLog, candLog, nThrown, nAppended, truncated, ncalls, discoveries>>

---------------------------------------------------------------------------
(* Several calls in one process *)

\* the arguments of the calls of a process that calls more than once
ProcessBaseLists == {<<A>>, <<B>>, <<A, A>>, <<SX_A>>}
ProcessDepthChoices == {0, 1}

SitemapBindAgain == BindWith(ProcessBaseLists, ProcessDepthChoices)

\* the call is over: it raised, or every row has been handed out
CallOver == pc = "failed" \/ (pc = "scan" /\ current_idx >= Len(entries))

\* The process calls sitemap_urls() again: bind data and global state are new, the
\* static SitemapCache is the one of the process, and the web may have changed.
NewCall ==
    /\ CallOver
    /\ ncalls < MaxCalls
    /\ ncalls' = ncalls + 1
    /\ pc' = "bind"
    /\ bind' = NoBind
    /\ idx' = 0
    /\ sitemap_urls' = <<>>
    /\ stack' = <<>>
    /\ entries' = <<>>
    /\ errors' = <<>>
    /\ current_idx' = 0
    /\ fetch_complete' = FALSE
    /\ initial_error_count' = 0
    /\ initial_entry_count' = 0
    /\ thrown' = <<>>
    /\ output' = <<>>
    /\ web' = <<>>
    /\ fetchLog' = <<>>
    /\ candLog' = <<>>
    /\ nThrown' = 0
    /\ nAppended' = 0
    /\ truncated' = <<>>
    /\ lastBatch' = 0
    /\ UNCHANGED <<cache, discoveries>>

---------------------------------------------------------------------------
(* HttpClient::Fetch: the retry loop *)

\* RetryConfig with its defaults
RetryConfig(max_retries) ==
    [max_retries |-> max_retries, initial_backoff_ms |-> 100, backoff_multiplier |-> 2,
     max_backoff_ms |-> 30000]

NoResponse == Response(FALSE, 0, <<>>, "none", Garbage, "")

\* what one ExecuteHttpGet may give: a transport failure (status 0) or a status,
\* with the Retry-After header of the response (429 and 503 may carry one)
StatusCodes == {200, 204, 301, 404, 429, 500, 502, 503, 504}
RetryAfterHeaders == {<<>>, <<"0">>, <<"1", "2">>, <<"x">>, <<"-", "1">>}
Outcomes == {[transport_ok |-> FALSE, status |-> 0, retry_after |-> <<>>]}
            \cup {[transport_ok |-> TRUE, status |-> c, retry_after |-> <<>>] :
                     c \in StatusCodes}
            \cup {[transport_ok |-> TRUE, status |-> c, retry_after |-> h] :
                     c \in {429, 503}, h \in RetryAfterHeaders}

IsRetryable(status_code) == status_code \in {429, 500, 502, 503, 504}
IsSuccess(o) == o.transport_ok /\ o.status >= 200 /\ o.status < 300
\* another attempt may follow this outcome
RetryableOutcome(o) == ~o.transport_ok \/ IsRetryable(o.status)
\* faulty variant: one attempt too many
BudgetLeft_OffByOne(made) == made <= rc.max_retries + 1

\* attempts made so far leave room for another one
BudgetLeft(made) == made < rc.max_retries + 1

\* the value of a decimal digit, -1 for any other character
DigitValue(c) ==
    CASE c = "0" -> 0 [] c = "1" -> 1 [] c = "2" -> 2 [] c = "3" -> 3 [] c = "4" -> 4
      [] c = "5" -> 5 [] c = "6" -> 6 [] c = "7" -> 7 [] c = "8" -> 8 [] c = "9" -> 9
      [] OTHER -> -1

\* the seconds a Retry-After header names: a non-empty run of decimal digits read as a
\* number, -1 for anything else
RECURSIVE DecimalValue(_, _)
DecimalValue(s, acc) ==
    IF s = <<>> THEN acc
    ELSE IF DigitValue(Head(s)) < 0 THEN -1
    ELSE DecimalValue(Tail(s), 10 * acc + DigitValue(Head(s)))

ParseRetryAfter(retry_after) ==
    IF retry_after = <<>> THEN -1 ELSE DecimalValue(retry_after, 0)

RECURSIVE Power(_, _)
Power(b, e) == IF e = 0 THEN 1 ELSE b * Power(b, e - 1)

Min(x, y) == IF x <= y THEN x ELSE y

\* faulty variant: the exponential backoff without its cap
Backoff_Uncapped(k) == rc.initial_backoff_ms * Power(rc.backoff_multiplier, k - 1)

\* the computed backoff before retry attempt k (k >= 1), in milliseconds
Backoff(k) ==
    Min(rc.initial_backoff_ms * Power(rc.backoff_multiplier, k - 1), rc.max_backoff_ms)

\* the wait before retry attempt k after a response with this Retry-After header
WaitBefore(k, retry_after) ==
    IF ParseRetryAfter(retry_after) >= 0
    THEN ParseRetryAfter(retry_after) * 1000
    ELSE Backoff(k)

\* the max_backoff_ms options a caller passes: one the backoff reaches, and the default
MaxBackoffChoices == {150, 30000}

InitFetch ==
    /\ rc = RetryConfig(5)
    /\ attempt = 0
    /\ outcomes = <<>>
    /\ waits = <<>>
    /\ fstate = "idle"
    /\ fresult = NoResponse

\* a caller invokes HttpClient::Fetch with its RetryConfig
FetchCall ==
    /\ fstate = "idle"
    /\ \E n \in 0..MaxRetriesBound, mb \in MaxBackoffChoices :
         rc' = [RetryConfig(n) EXCEPT !.max_backoff_ms = mb]
    /\ fstate' = "running"
    /\ UNCHANGED <<attempt, outcomes, waits, fresult>>

\* one attempt of the loop and what the loop does with its outcome
FetchAttempt ==
    /\ fstate = "running"
    /\ \E o \in Outcomes :
         /\ attempt' = attempt + 1
         /\ outcomes' = Append(outcomes, o)
         /\ IF IsSuccess(o)
            THEN /\ fstate' = "done"
                 /\ waits' = waits
                 /\ fresult' = Response(TRUE, o.status, CT_xml, "none", Garbage, "")
            ELSE IF RetryableOutcome(o) /\ BudgetLeft(attempt + 1)
            THEN /\ fstate' = "running"
                 /\ waits' = Append(waits, WaitBefore(attempt + 1, o.retry_after))
                 /\ fresult' = fresult
            ELSE /\ fstate' = "done"
                 /\ waits' = waits
                 /\ fresult' = Response(FALSE, o.status, <<>>, "none", Garbage,
                                        IF o.transport_ok THEN "HTTP error"
                                        ELSE "request failed")
    /\ UNCHANGED rc

---------------------------------------------------------------------------
(* bruteforce_find_sitemap: the filename x filetype probe *)

\* BruteforceFinder::GetFilenames and GetFiletypes
Filenames == <<"sitemap", "sitemap_index">>
Filetypes == <<"xml", "txt">>

Null == <<>>
\* the rows a call may be given: NULL, a host without scheme, a URL ending in '/'
ProbeInputs == {Null, <<<<"e">>>>, <<<<"a", "/">>>>}

CT_XML_upper == <<"T", "E", "X", "T", "/", "X", "M", "L">>
CT_plain == <<"t", "/", "p", "l", "a", "i", "n">>
CT_html == <<"t", "/", "h", "t", "m", "l">>
S_ct_xml == <<"x", "m", "l">>
S_ct_plain == <<"p", "l", "a", "i", "n">>

\* what HttpClient::Fetch may return for a candidate: success is true exactly for 2xx
ProbeResponses ==
    { Response(FALSE, 0, <<>>, "none", Garbage, "request failed"),
      Response(FALSE, 404, CT_plain, "none", Garbage, "HTTP 404"),
      Response(TRUE, 200, CT_html, "none", Garbage, ""),
      Response(TRUE, 200, <<>>, "none", Garbage, ""),
      Response(TRUE, 200, CT_XML_upper, "none", Garbage, ""),
      Response(TRUE, 200, CT_plain, "none", Garbage, ""),
      Response(TRUE, 204, CT_gzip, "none", Garbage, "") }

\* faulty variant: the probe passes the RetryConfig as default-constructed
ProbeRetryConfig_Default == RetryConfig(5)

\* the retry_config of the probe: no retries
ProbeRetryConfig == RetryConfig(0)

\* the attempts HttpClient::Fetch may have made when it returns response under config:
\* a retryable failure is returned only once the budget is used up, any other
\* response may have come at any attempt
FetchAttempts(config, response) ==
    IF ~response.success /\ (response.status_code = 0 \/ IsRetryable(response.status_code))
    THEN {config.max_retries + 1}
    ELSE 1..(config.max_retries + 1)

\* BuildUrl (bruteforce_function.cpp)
ProbeBuildUrl(base_url, path) ==
    IF path = <<>> \/ Head(path) # "/"
    THEN StripSlashes(base_url) \o <<"/">> \o path
    ELSE StripSlashes(base_url) \o path

\* faulty variant: the validity of the row is not looked at
RowIsValid_Ignored(row) == TRUE

\* base_url_data.validity.RowIsValid(idx)
RowIsValid(row) == row # Null

\* base_urls[idx].GetString(): the string of a NULL row is empty
GetString(row) == IF row = Null THEN <<>> ELSE row[1]

\* auto-prepend https:// if no protocol
WithProtocol(url) ==
    IF ~Contains(Text(url), S_scheme) THEN <<"https://">> \o url ELSE url

\* faulty variant: the content type is compared as it came
ContentTypeMatches_CaseSensitive(content_type) ==
    \/ Contains(content_type, S_ct_xml)
    \/ Contains(content_type, S_gzip)
    \/ Contains(content_type, S_ct_plain)

\* the content type names xml, gzip or plain text
ContentTypeMatches(content_type) ==
    LET content_type_lower == ToLower(content_type)
    IN  \/ Contains(content_type_lower, S_ct_xml)
        \/ Contains(content_type_lower, S_gzip)
        \/ Contains(content_type_lower, S_ct_plain)

\* the test of a candidate's response
Accepted(response) ==
    /\ response.success /\ response.status_code >= 200 /\ response.status_code < 300
    /\ ContentTypeMatches(response.content_type)

InitProbe ==
    /\ bf_pc = "idle"
    /\ bf_args = <<>>
    /\ bf_i = 1
    /\ bf_base = <<>>
    /\ bf_f = 1
    /\ bf_t = 1
    /\ bf_result = <<>>
    /\ bf_log = <<>>

\* the engine calls the scalar function on a chunk of rows
BruteforceCall ==
    /\ bf_pc = "idle"
    /\ \E n \in 1..MaxRows : \E rows \in [1..n -> ProbeInputs] : bf_args' = rows
    /\ bf_pc' = "row"
    /\ UNCHANGED <<bf_i, bf_base, bf_f, bf_t, bf_result, bf_log>>

\* the head of the row loop: a NULL row gives NULL, any other row starts its probe
BruteforceRow ==
    /\ bf_pc = "row"
    /\ IF bf_i > Len(bf_args)
       THEN /\ bf_pc' = "returned"
            /\ UNCHANGED <<bf_i, bf_base, bf_f, bf_t, bf_result, bf_log>>
       ELSE IF ~RowIsValid(bf_args[bf_i])
       THEN /\ bf_result' = Append(bf_result, Null)
            /\ bf_i' = bf_i + 1
            /\ bf_log' = <<>>
            /\ bf_pc' = "row"
            /\ UNCHANGED <<bf_base, bf_f, bf_t>>
       ELSE /\ bf_base' = WithProtocol(GetString(bf_args[bf_i]))
            /\ bf_f' = 1
            /\ bf_t' = 1
            /\ bf_log' = <<>>
            /\ bf_pc' = "probe"
            /\ UNCHANGED <<bf_i, bf_result>>
    /\ UNCHANGED bf_args

\* one pass of the inner loop: build the candidate, fetch it, accept it or go on
BruteforceProbe ==
    /\ bf_pc = "probe"
    /\ LET url == ProbeBuildUrl(bf_base, <<Filenames[bf_f], ".", Filetypes[bf_t]>>)
       IN  \E response \in ProbeResponses :
             /\ \E n \in FetchAttempts(ProbeRetryConfig, response) :
                  bf_log' = Append(bf_log,
                                   [url |-> url, response |-> response,
                                    max_retries |-> ProbeRetryConfig.max_retries,
                                    attempts |-> n])
             /\ IF Accepted(response)
                THEN /\ bf_result' = Append(bf_result, <<url>>)
                     /\ bf_i' = bf_i + 1
                     /\ bf_pc' = "row"
                     /\ UNCHANGED <<bf_f, bf_t>>
                ELSE IF bf_t < Len(Filetypes)
                THEN /\ bf_t' = bf_t + 1
                     /\ UNCHANGED <<bf_f, bf_i, bf_result, bf_pc>>
                ELSE IF bf_f < Len(Filenames)
                THEN /\ bf_f' = bf_f + 1
                     /\ bf_t' = 1
                     /\ UNCHANGED <<bf_i, bf_result, bf_pc>>
                ELSE /\ bf_result' = Append(bf_result, Null)
                     /\ bf_i' = bf_i + 1
                     /\ bf_pc' = "row"
                     /\ UNCHANGED <<bf_f, bf_t>>
    /\ UNCHANGED <<bf_args, bf_base>>

---------------------------------------------------------------------------
(* Concurrent invocations: DiscoverSitemapUrls of several sitemap_urls()   *)
(* calls running at once on the SitemapCache of the process.  Get and Set  *)
(* each hold cache_mutex for their own duration only, so a step of one     *)
(* invocation is: one Get, or one fetch followed by at most one Set.       *)

Invocations == 1..MaxInvocations

\* base URLs concurrent invocations are given
ConcurrentBaseUrls == {A, B, SX_A}

Idle == [pc |-> "idle", base_url |-> <<>>, follow_robots |-> TRUE, result |-> <<>>]

InitInvocations == inv = [w \in Invocations |-> Idle]

\* the invocation w moves to pc next, or returns list
InvocationNext(w, next) == inv' = [inv EXCEPT ![w].pc = next]
InvocationReturn(w, list) == inv' = [inv EXCEPT ![w].pc = "returned", ![w].result = list]

\* one HttpClient::Fetch of an invocation: the answer is recorded
InvocationFetch(url, response) ==
    /\ response \in Answers(url)
    /\ web' = IF url \in DOMAIN web THEN web ELSE (url :> response) @@ web

\* SitemapBind of an invocation: its base URL and its follow_robots
InvocationBind ==
    \E w \in Invocations :
      /\ inv[w].pc = "idle"
      /\ \E base_url \in ConcurrentBaseUrls, fr \in BOOLEAN :
           inv' = [inv EXCEPT ![w] = [pc |-> "start", base_url |-> base_url,
                                      follow_robots |-> fr, result |-> <<>>]]
      /\ UNCHANGED <<cache, web>>

\* DiscoverSitemapUrls up to its first fetch: a direct sitemap URL, cache.Get
InvocationStart ==
    \E w \in Invocations :
      /\ inv[w].pc = "start"
      /\ LET base_url == inv[w].base_url
         IN  IF IsSitemapUrl(base_url)
             THEN InvocationReturn(w, <<base_url>>)
             ELSE IF CacheGet(base_url) # <<>>
                  THEN InvocationReturn(w, CacheGet(base_url))
                  ELSE InvocationNext(w, IF inv[w].follow_robots
                                         THEN "robots" ELSE "sitemap_xml")
      /\ UNCHANGED <<cache, web>>

\* the end of a strategy of DiscoverSitemapUrls that fetched url: the non-empty list
\* found is stored with cache.Set and returned, otherwise the invocation goes on to
\* next
InvocationStrategy(w, url, response, found, next) ==
    /\ InvocationFetch(url, response)
    /\ IF found # <<>>
       THEN /\ cache' = CacheSet(inv[w].base_url, found)
            /\ InvocationReturn(w, found)
       ELSE /\ cache' = cache
            /\ IF next = "returned"
               THEN InvocationReturn(w, <<>>)
               ELSE InvocationNext(w, next)

\* 1. Try robots.txt
InvocationRobots ==
    \E w \in Invocations :
      /\ inv[w].pc = "robots"
      /\ LET robots_url == BuildUrl(inv[w].base_url, <<"/", "robots.txt">>)
         IN  \E response \in Answers(robots_url) :
               InvocationStrategy(w, robots_url, response, RobotsCandidates(response),
                                  "sitemap_xml")

\* 2. Try /sitemap.xml
InvocationSitemapXml ==
    \E w \in Invocations :
      /\ inv[w].pc = "sitemap_xml"
      /\ LET sitemap_xml_url == BuildUrl(inv[w].base_url, <<"/", "sitemap.xml">>)
         IN  \E response \in Answers(sitemap_xml_url) :
               InvocationStrategy(w, sitemap_xml_url, response,
                                  ProbeCandidates(sitemap_xml_url, response),
                                  "sitemap_index")

\* 3. Try /sitemap_index.xml
InvocationSitemapIndex ==
    \E w \in Invocations :
      /\ inv[w].pc = "sitemap_index"
      /\ LET sitemap_index_url == BuildUrl(inv[w].base_url, <<"/", "sitemap_index.xml">>)
         IN  \E response \in Answers(sitemap_index_url) :
               InvocationStrategy(w, sitemap_index_url, response,
                                  ProbeCandidates(sitemap_index_url, response),
                                  "homepage")

\* 4. Try parsing HTML from homepage; nothing found returns the empty list, uncached
InvocationHomepage ==
    \E w \in Invocations :
      /\ inv[w].pc = "homepage"
      /\ \E response \in Answers(inv[w].base_url) :
           InvocationStrategy(w, inv[w].base_url, response,
                              HomepageCandidates(inv[w].base_url, response), "returned")

\* what the concurrent invocations leave alone
InvocationFrame ==
    UNCHANGED <<pc, bind, idx, sitemap_urls, stack, entries, errors, current_idx,
                fetch_complete, initial_error_count, initial_entry_count, thrown,
                output, fetchLog, candLog, nThrown, nAppended, truncated, lastBatch,
                ncalls, discoveries, fetchVars, probeVars, pureVars>>

---------------------------------------------------------------------------
(* Specifications *)

\* no function has been applied on its own
InitPure ==
    /\ fn = "none"
    /\ arg = <<>>
    /\ ret = <<>>

Init == InitOrch /\ InitFetch /\ InitProbe /\ InitPure /\ InitInvocations

Next ==
    \/ SitemapBind /\ UNCHANGED <<fetchVars, probeVars, pureVars, concVars>>
    \/ DiscoverStart /\ UNCHANGED <<fetchVars, probeVars, pureVars, concVars>>
    \/ DiscoverRobots /\ UNCHANGED <<fetchVars, probeVars, pureVars, concVars>>
    \/ DiscoverSitemapXml /\ UNCHANGED <<fetchVars, probeVars, pureVars, concVars>>
    \/ DiscoverSitemapIndex /\ UNCHANGED <<fetchVars, probeVars, pureVars, concVars>>
    \/ DiscoverHomepage /\ UNCHANGED <<fetchVars, probeVars, pureVars, concVars>>
    \/ FetchSitemap /\ UNCHANGED <<fetchVars, probeVars, pureVars, concVars>>
    \/ CheckBase /\ UNCHANGED <<fetchVars, probeVars, pureVars, concVars>>
    \/ InitGlobalReturn /\ UNCHANGED <<fetchVars, probeVars, pureVars, concVars>>
    \/ SitemapScan /\ UNCHANGED <<fetchVars, probeVars, pureVars, concVars>>

Spec == Init /\ [][Next]_vars

FetchNext ==
    \/ FetchCall /\ UNCHANGED <<orchVars, probeVars, pureVars, concVars>>
    \/ FetchAttempt /\ UNCHANGED <<orchVars, probeVars, pureVars, concVars>>

FetchSpec == Init /\ [][FetchNext]_vars

ProcessNext ==
    \/ SitemapBindAgain /\ UNCHANGED <<fetchVars, probeVars, pureVars, concVars>>
    \/ DiscoverStart /\ UNCHANGED <<fetchVars, probeVars, pureVars, concVars>>
    \/ DiscoverRobots /\ UNCHANGED <<fetchVars, probeVars, pureVars, concVars>>
    \/ DiscoverSitemapXml /\ UNCHANGED <<fetchVars, probeVars, pureVars, concVars>>
    \/ DiscoverSitemapIndex /\ UNCHANGED <<fetchVars, probeVars, pureVars, concVars>>
    \/ DiscoverHomepage /\ UNCHANGED <<fetchVars, probeVars, pureVars, concVars>>
    \/ FetchSitemap /\ UNCHANGED <<fetchVars, probeVars, pureVars, concVars>>
    \/ CheckBase /\ UNCHANGED <<fetchVars, probeVars, pureVars, concVars>>
    \/ InitGlobalReturn /\ UNCHANGED <<fetchVars, probeVars, pureVars, concVars>>
    \/ SitemapScan /\ UNCHANGED <<fetchVars, probeVars, pureVars, concVars>>
    \/ NewCall /\ UNCHANGED <<fetchVars, probeVars, pureVars, concVars>>

ProcessSpec == Init /\ [][ProcessNext]_vars

ProbeNext ==
    \/ BruteforceCall /\ UNCHANGED <<orchVars, fetchVars, pureVars, concVars>>
    \/ BruteforceRow /\ UNCHANGED <<orchVars, fetchVars, pureVars, concVars>>
    \/ BruteforceProbe /\ UNCHANGED <<orchVars, fetchVars, pureVars, concVars>>

ProbeSpec == Init /\ [][ProbeNext]_vars

\* what the cache may hold when the probe is called: nothing, or the list an earlier
\* sitemap_urls('e') of the process found in the robots.txt of https://e
WarmCaches == {<<>>, (<<"https://", "e">> :> <<D1>>)}

WarmInit ==
    /\ pc = "bind"
    /\ bind = NoBind
    /\ idx = 0
    /\ sitemap_urls = <<>>
    /\ stack = <<>>
    /\ entries = <<>>
    /\ errors = <<>>
    /\ current_idx = 0
    /\ fetch_complete = FALSE
    /\ initial_error_count = 0
    /\ initial_entry_count = 0
    /\ thrown = <<>>
    /\ output = <<>>
    /\ cache \in WarmCaches
    /\ web = <<>>
    /\ fetchLog = <<>>
    /\ candLog = <<>>
    /\ nThrown = 0
    /\ nAppended = 0
    /\ truncated = <<>>
    /\ lastBatch = 0
    /\ ncalls = 1
    /\ discoveries = <<>>
    /\ InitFetch /\ InitProbe /\ InitPure /\ InitInvocations

WarmProbeSpec == WarmInit /\ [][ProbeNext]_vars

ConcurrentNext ==
    \/ InvocationBind /\ InvocationFrame
    \/ InvocationStart /\ InvocationFrame
    \/ InvocationRobots /\ InvocationFrame
    \/ InvocationSitemapXml /\ InvocationFrame
    \/ InvocationSitemapIndex /\ InvocationFrame
    \/ InvocationHomepage /\ InvocationFrame

ConcurrentSpec == Init /\ [][ConcurrentNext]_vars

\* the lines a robots.txt is made of
RobotsLineText ==
    ("L_plain" :> <<"S", "i", "t", "e", "m", "a", "p", ":", " ", "u", "1">>) @@
    ("L_padded" :> <<" ", "s", "i", "t", "e", "m", "a", "p", ":", "u", "2", " ", "\r">>) @@
    ("L_upper" :> <<"S", "I", "T", "E", "M", "A", "P", ":", "\t", "u", "1">>) @@
    ("L_inner" :> <<"S", "i", "t", "e", "M", "a", "p", ":", " ", "u", " ", "2">>) @@
    ("L_no_url" :> <<"s", "i", "t", "e", "m", "a", "p", ":">>) @@
    ("L_blank_url" :> <<"S", "i", "t", "e", "m", "a", "p", ":", " ", " ", "\t">>) @@
    ("L_comment" :> <<"#", " ", "s", "i", "t", "e", "m", "a", "p", ":", " ", "u", "1">>) @@
    ("L_padded_comment" :> <<" ", "#", "u", "1">>) @@
    ("L_empty" :> <<>>) @@
    ("L_spaces" :> <<" ", "\t">>) @@
    ("L_other" :> <<"D", "i", "s", "a", "l", "l", "o", "w", ":", " ", "/">>) @@
    ("L_late" :> <<"x", " ", "s", "i", "t", "e", "m", "a", "p", ":", " ", "u", "1">>) @@
    ("L_no_colon" :> <<"s", "i", "t", "e", "m", "a", "p", " ", "u", "1">>)
RobotsLines == DOMAIN RobotsLineText
RobotsInputs == UNION {[1..n -> RobotsLines] : n \in 1..MaxRobotsLines}

\* the text of the file: its lines, a line feed between two of them
RECURSIVE JoinLines(_)
JoinLines(names) ==
    IF names = <<>> THEN <<>>
    ELSE IF Len(names) = 1 THEN RobotsLineText[names[1]]
    ELSE RobotsLineText[names[1]] \o <<"\n">> \o JoinLines(Tail(names))

ApplyParseSitemapUrls ==
    /\ fn = "none"
    /\ fn' = "ParseSitemapUrls"
    /\ ret' = ParseSitemapUrlsText(JoinLines(arg))
    /\ UNCHANGED arg

RobotsInit ==
    /\ InitOrch /\ InitFetch /\ InitProbe /\ InitInvocations
    /\ fn = "none"
    /\ arg \in RobotsInputs
    /\ ret = <<>>

RobotsNext == ApplyParseSitemapUrls /\ UNCHANGED <<orchVars, fetchVars, probeVars, concVars>>

RobotsSpec == RobotsInit /\ [][RobotsNext]_vars

\* the loc texts of the documents given to the parser
LocTexts ==
    { <<>>, <<"u", "1">>, <<" ", "u", "2", "\n">>, <<"u", " ", "3">>,
      <<" ", " ">>, <<"\t", "\n">> }
XmlElements == [ns : {"sm", "sm2"}, loc : LocTexts, lastmod : {""}]
XmlInputs ==
    [root : {"urlset", "sitemapindex"},
     elements : UNION {[1..n -> XmlElements] : n \in 0..MaxElements}]

ApplyParseSitemap ==
    /\ fn = "none"
    /\ fn' = "ParseSitemap"
    /\ ret' = ParseSitemapXml(arg)
    /\ UNCHANGED arg

XmlInit ==
    /\ InitOrch /\ InitFetch /\ InitProbe /\ InitInvocations
    /\ fn = "none"
    /\ arg \in XmlInputs
    /\ ret = <<>>

XmlNext == ApplyParseSitemap /\ UNCHANGED <<orchVars, fetchVars, probeVars, concVars>>

XmlSpec == XmlInit /\ [][XmlNext]_vars

\* the URLs IsSitemapUrl is applied to
UrlTokens == {"a", "/", "sitemap.xml", "c1.xml", "SiteMap", "?q", ".gz", "p1"}
UrlInputs == UNION {[1..n -> UrlTokens] : n \in 1..MaxUrlTokens}

ApplyIsSitemapUrl ==
    /\ fn = "none"
    /\ fn' = "IsSitemapUrl"
    /\ ret' = IsSitemapUrl(arg)
    /\ UNCHANGED arg

IsSitemapUrlInit ==
    /\ InitOrch /\ InitFetch /\ InitProbe /\ InitInvocations
    /\ fn = "none"
    /\ arg \in UrlInputs
    /\ ret = <<>>

IsSitemapUrlNext == ApplyIsSitemapUrl /\ UNCHANGED <<orchVars, fetchVars, probeVars, concVars>>

IsSitemapUrlSpec == IsSitemapUrlInit /\ [][IsSitemapUrlNext]_vars

\* the URLs and content types IsGzipped is applied to
GzipUrlTokens == {"a", "/", "c1.xml", "c2.XML.GZ", ".gz", "?q"}
CT_GZIP_upper == <<"a", "/", "G", "Z", "I", "P">>
CT_x_Gzip == <<"a", "/", "x", "-", "G", "z", "i", "p", ";", "q">>
GzipContentTypes == {<<>>, CT_xml, CT_gzip, CT_GZIP_upper, CT_x_Gzip}
GzipInputs ==
    [url : UNION {[1..n -> GzipUrlTokens] : n \in 1..MaxGzipUrlTokens},
     content_type : GzipContentTypes]

ApplyIsGzipped ==
    /\ fn = "none"
    /\ fn' = "IsGzipped"
    /\ ret' = IsGzipped(arg.url, arg.content_type)
    /\ UNCHANGED arg

IsGzippedInit ==
    /\ InitOrch /\ InitFetch /\ InitProbe /\ InitInvocations
    /\ fn = "none"
    /\ arg \in GzipInputs
    /\ ret = <<>>

IsGzippedNext == ApplyIsGzipped /\ UNCHANGED <<orchVars, fetchVars, probeVars, concVars>>

IsGzippedSpec == IsGzippedInit /\ [][IsGzippedNext]_vars


---------------------------------------------------------------------------
(* What the history says about one base URL *)

\* the discovery fetches issued for the i-th base URL, in order
DiscLog(i) == SelectSeq(fetchLog, LAMBDA f : f.base = i /\ f.phase # "sitemap")
\* the sitemap fetches issued for the i-th base URL, in order
WalkLog(i) == SelectSeq(fetchLog, LAMBDA f : f.base = i /\ f.phase = "sitemap")

RECURSIVE ConcatAll(_)
ConcatAll(seqs) == IF seqs = <<>> THEN <<>> ELSE Head(seqs) \o ConcatAll(Tail(seqs))

\* the errors recorded and the entries appended by a sequence of sitemap fetches
ErrorsOf(log) ==
    ConcatAll([k \in 1..Len(log) |->
                 FetchSitemapEffect(log[k].url, log[k].depth, web[log[k].url]).errs])
EntriesOf(log) ==
    ConcatAll([k \in 1..Len(log) |->
                 FetchSitemapEffect(log[k].url, log[k].depth, web[log[k].url]).ents])

\* the candidates the answer to a discovery fetch yields
Produced(f) ==
    CASE f.phase = "robots" -> RobotsCandidates(web[f.url])
      [] f.phase = "homepage" -> HomepageCandidates(bind.base_urls[f.base], web[f.url])
      [] OTHER -> ProbeCandidates(f.url, web[f.url])

\* the strategies in their priority order, and the URL each one fetches
Strategies ==
    IF bind.follow_robots
    THEN <<"robots", "sitemap_xml", "sitemap_index", "homepage">>
    ELSE <<"sitemap_xml", "sitemap_index", "homepage">>
StrategyUrl(base_url, phase) ==
    CASE phase = "robots" -> StripSlashes(base_url) \o <<"/", "robots.txt">>
      [] phase = "sitemap_xml" -> StripSlashes(base_url) \o <<"/", "sitemap.xml">>
      [] phase = "sitemap_index" -> StripSlashes(base_url) \o <<"/", "sitemap_index.xml">>
      [] OTHER -> base_url

IsPrefix(s, t) == Len(s) <= Len(t) /\ SubSeq(t, 1, Len(s)) = s

---------------------------------------------------------------------------
(* Claims *)

\* C1: the discovery fetches of one base URL are a prefix of robots.txt (only with
\* follow_robots), {base}/sitemap.xml, {base}/sitemap_index.xml, homepage, in that
\* order; every strategy fetched before the last one produced no candidate; and once
\* discovery has returned, it returned what the last strategy fetched produced, the
\* empty list only after all strategies were tried.
C1_DiscoveryOrder ==
    \A i \in 1..Len(bind.base_urls) :
      LET log == DiscLog(i)
          base_url == bind.base_urls[i]
      IN  /\ IsPrefix([k \in 1..Len(log) |-> log[k].phase], Strategies)
          /\ \A k \in 1..Len(log) :
               /\ log[k].url = StrategyUrl(base_url, log[k].phase)
               /\ k < Len(log) => Produced(log[k]) = <<>>
          /\ log # <<>> =>
               /\ ~IsSitemapUrl(base_url)
               /\ Len(candLog) >= i =>
                    /\ candLog[i] = Produced(log[Len(log)])
                    /\ candLog[i] = <<>> => Len(log) = Len(Strategies)
               /\ Len(candLog) < i => Produced(log[Len(log)]) = <<>>
          /\ (log = <<>> /\ Len(candLog) >= i) => candLog[i] # <<>>

\* C1 witness: with follow_robots, a base URL went through all four strategies and
\* the homepage produced the candidates that were returned.
C1_Witness ==
    /\ bind.follow_robots
    /\ Len(candLog) >= 1
    /\ Len(DiscLog(1)) = 4
    /\ DiscLog(1)[4].phase = "homepage"
    /\ candLog[1] # <<>>


\* the message of the failure a base URL with these recorded errors must raise
ExpectedMessage(base_url, errs) ==
    [base |-> base_url, last |-> IF errs = <<>> THEN <<>> ELSE <<errs[Len(errs)]>>]

\* C2: with ignore_errors disabled, a base URL that contributed zero entries raises
\* the hard failure naming it, with the last error recorded while processing that
\* base URL if there is one and with the generic message alone otherwise; no base
\* URL that contributed zero entries is passed over.
C2_ZeroEntryFailure ==
    ~bind.ignore_errors =>
      /\ \A i \in 1..Len(bind.base_urls) :
           i < idx => EntriesOf(WalkLog(i)) # <<>>
      /\ pc = "failed" =>
           /\ EntriesOf(WalkLog(idx)) = <<>>
           /\ thrown = <<ExpectedMessage(bind.base_urls[idx], ErrorsOf(WalkLog(idx)))>>
      /\ (pc = "fetch" /\ stack = <<>> /\ EntriesOf(WalkLog(idx)) = <<>>) =>
           /\ MustThrow
           /\ ErrorMessage(bind.base_urls[idx])
                = ExpectedMessage(bind.base_urls[idx], ErrorsOf(WalkLog(idx)))

\* C2 witness: the second base URL failed with no error of its own while an error of
\* the first base URL is on record.
C2_Witness ==
    /\ pc = "failed"
    /\ idx = 2
    /\ ErrorsOf(WalkLog(1)) # <<>>
    /\ thrown[1].last = <<>>

\* C2 second case, reached as well: the failure carries the last error of its base
C2_WitnessWithError ==
    /\ pc = "failed"
    /\ Len(ErrorsOf(WalkLog(idx))) >= 2
    /\ thrown[1].last = <<Error("decompress", C2, "")>>


\* the entries the base URLs 1..n contributed, in order
ContributedUpTo(n) == ConcatAll([i \in 1..n |-> EntriesOf(WalkLog(i))])

\* C3: with ignore_errors enabled no hard failure is ever raised; the base URLs are
\* processed in input order, every one of them; the collector holds the entries the
\* base URLs contributed, in order, and the rows emitted are those entries.
C3_IgnoreErrors ==
    bind.ignore_errors =>
      /\ thrown = <<>> /\ nThrown = 0 /\ pc # "failed"
      /\ \A k \in 1..(Len(fetchLog) - 1) : fetchLog[k].base <= fetchLog[k + 1].base
      /\ pc = "scan" =>
           /\ Len(candLog) = Len(bind.base_urls)
           /\ entries = ContributedUpTo(Len(bind.base_urls))
      /\ output = [i \in 1..current_idx |-> Row(entries[i])]

\* C3 witness: two base URLs, the first found no sitemap at all, the second
\* contributed entries, and all of them were emitted.
C3_Witness ==
    /\ bind.ignore_errors
    /\ pc = "scan"
    /\ Len(bind.base_urls) = 2
    /\ candLog[1] = <<>>
    /\ entries # <<>>
    /\ Len(output) = Len(entries)

\* C4: once the hard failure has been raised, no fetch is issued any more, neither
\* in discovery nor for a sitemap.
C4_NoFetchAfterFailure == [][thrown # <<>> => fetchLog' = fetchLog /\ web' = web]_vars

\* C4 witness: the failure was raised with a base URL still to come.
C4_Witness ==
    /\ thrown # <<>>
    /\ ~bind.ignore_errors
    /\ idx < Len(bind.base_urls)

\* C5 as stated: when the hard failure aborts the call, the collector still holds
\* the entries the earlier base URLs contributed.
C5_Original == thrown # <<>> => entries = ContributedUpTo(idx - 1)

\* C5 amended: when the hard failure aborts the call, the collector is gone with the
\* exception: it holds nothing, the fetch was never marked complete, no scan ran and
\* no row reached the caller.
C5_Amended ==
    thrown # <<>> =>
      /\ pc = "failed"
      /\ entries = <<>>
      /\ ~fetch_complete
      /\ current_idx = 0
      /\ output = <<>>

\* C5 witness: the call failed at its second base URL after the first one had
\* contributed entries.
C5_Witness ==
    /\ pc = "failed"
    /\ idx = 2
    /\ nAppended > 0


---------------------------------------------------------------------------
(* The depth-first walk, computed by recursion over the documents *)

WalkResult(ents, errs, fetches) == [ents |-> ents, errs |-> errs, fetches |-> fetches]
Visit(url, depth) == [url |-> url, depth |-> depth]

\* The walk of the calls in frames, one after the other: each call that is within
\* the depth bound fetches its URL and walks the children of an index before its
\* next sibling.  A URL never fetched has no known answer: its walk yields an entry
\* that no document holds.
RECURSIVE WalkAll(_)
WalkAll(frames) ==
    IF frames = <<>>
    THEN WalkResult(<<>>, <<>>, <<>>)
    ELSE LET f == Head(frames)
             rest == WalkAll(Tail(frames))
         IN  IF f.depth > bind.max_depth
             THEN rest
             ELSE IF f.url \notin DOMAIN web
             THEN WalkResult(<<EBlank>> \o rest.ents, rest.errs, rest.fetches)
             ELSE LET eff == FetchSitemapEffect(f.url, f.depth, web[f.url])
                      kids == WalkAll(eff.calls)
                  IN  WalkResult(eff.ents \o kids.ents \o rest.ents,
                                 eff.errs \o kids.errs \o rest.errs,
                                 <<Visit(f.url, f.depth)>> \o kids.fetches \o rest.fetches)

\* the walk of every candidate list returned so far, base URL after base URL
CandidateFrames ==
    ConcatAll([i \in 1..Len(candLog) |->
                 [k \in 1..Len(candLog[i]) |-> Frame(candLog[i][k], 0)]])
ExpectedWalk == WalkAll(CandidateFrames)

\* the sitemap fetches issued so far, in order
SitemapFetches ==
    LET log == SelectSeq(fetchLog, LAMBDA f : f.phase = "sitemap")
    IN  [k \in 1..Len(log) |-> Visit(log[k].url, log[k].depth)]

\* the walk of the current base URL is over and nothing has been raised
BetweenWalks ==
    /\ thrown = <<>>
    /\ pc \in {"loop", "scan"} \/ (pc = "fetch" /\ stack = <<>>)

TruncatedAt(i) == \E k \in 1..Len(truncated) : truncated[k].base = i

\* C6 as stated: no fetch is issued beyond the depth bound, truncation records no
\* error string, and (for a bound N >= 0) a walk that was truncated and recorded no
\* error raises no error.
C6_Original ==
    /\ \A k \in 1..Len(fetchLog) :
         fetchLog[k].phase = "sitemap" => fetchLog[k].depth <= bind.max_depth
    /\ thrown = <<>> => errors = ErrorsOf(SelectSeq(fetchLog, LAMBDA f : f.phase = "sitemap"))
    /\ ~(pc = "failed" /\ bind.max_depth >= 0 /\ TruncatedAt(idx)
           /\ ErrorsOf(WalkLog(idx)) = <<>>)

\* C6 amended: no fetch is issued beyond the depth bound; the calls cut off are
\* exactly one level beyond it and record no error string; the only failure raised
\* is the zero-entry failure of a base URL that contributed no entry within the
\* bound, with ignore_errors disabled.
C6_Amended ==
    /\ \A k \in 1..Len(fetchLog) :
         fetchLog[k].phase = "sitemap" => fetchLog[k].depth <= bind.max_depth
    /\ \A k \in 1..Len(truncated) : truncated[k].depth > bind.max_depth
    /\ thrown = <<>> => errors = ErrorsOf(SelectSeq(fetchLog, LAMBDA f : f.phase = "sitemap"))
    /\ pc = "failed" => EntriesOf(WalkLog(idx)) = <<>> /\ ~bind.ignore_errors

\* C6 witness: with max_depth = 2 a call at depth 3 was cut off, no error is on
\* record and the entries within the bound were collected.
C6_Witness ==
    /\ pc = "scan"
    /\ bind.max_depth = 2
    /\ \E k \in 1..Len(truncated) : truncated[k].depth = 3
    /\ errors = <<>>
    /\ entries # <<>>

\* C7: the collector holds the depth-first, document-order walk of the candidates of
\* the base URLs processed, duplicates kept, and the rows emitted are the entries of
\* the collector in that order.
C7_DepthFirstOrder ==
    /\ BetweenWalks => entries = ExpectedWalk.ents
    /\ output = [i \in 1..current_idx |-> Row(entries[i])]
    /\ Len(candLog) <= Len(bind.base_urls)

\* C7 witness: all rows are out, an entry was emitted twice and a child of an index
\* was walked before the next candidate.
C7_Witness ==
    /\ pc = "scan"
    /\ current_idx = Len(entries)
    /\ Len(output) >= 3
    /\ \E i, j \in 1..Len(output) : i < j /\ output[i] = output[j]
    /\ \E k \in 1..(Len(fetchLog) - 1) :
         /\ fetchLog[k].phase = "sitemap" /\ fetchLog[k].depth = 1
         /\ fetchLog[k + 1].phase = "sitemap" /\ fetchLog[k + 1].depth = 0

\* C8: a failing sitemap records exactly one error and ends that call only: the
\* errors on record and the fetches issued are those of the full depth-first walk,
\* every later sibling included, and the entries are those of the documents that
\* were read.
C8_ChildFailureIsLocal ==
    BetweenWalks =>
      /\ errors = ExpectedWalk.errs
      /\ SitemapFetches = ExpectedWalk.fetches
      /\ entries = EntriesOf(SelectSeq(fetchLog, LAMBDA f : f.phase = "sitemap"))

\* C8 witness: a child of an index failed, its next sibling was fetched and
\* contributed entries.
C8_Witness ==
    /\ pc = "scan"
    /\ Len(errors) = 1
    /\ \E k \in 1..(Len(fetchLog) - 1) :
         LET f == fetchLog[k]
             g == fetchLog[k + 1]
         IN  /\ f.phase = "sitemap" /\ f.depth = 1
             /\ FetchSitemapEffect(f.url, f.depth, web[f.url]).errs # <<>>
             /\ g.phase = "sitemap" /\ g.depth = 1 /\ g.base = f.base
             /\ FetchSitemapEffect(g.url, g.depth, web[g.url]).ents # <<>>


\* the children of the only candidate of the i-th base URL, when that candidate was
\* read as a sitemap index
IndexChildren(i) ==
    IF /\ Len(candLog) >= i
       /\ Len(candLog[i]) = 1
       /\ candLog[i][1] \in DOMAIN web
    THEN FetchSitemapEffect(candLog[i][1], 0, web[candLog[i][1]]).calls
    ELSE <<>>

\* the i-th base URL was discovered as one sitemap index whose children are all
\* unreachable
AllChildrenUnreachable(i) ==
    /\ IndexChildren(i) # <<>>
    /\ \A k \in 1..Len(IndexChildren(i)) :
         LET child == IndexChildren(i)[k].url
         IN  /\ Failed \in Options(child)
             /\ child \in DOMAIN web => ~web[child].success

\* one fetch error per child, in document order
ChildErrors(i) ==
    [k \in 1..Len(IndexChildren(i)) |-> Error("fetch", IndexChildren(i)[k].url, Failed.error)]

LastErrors(n) == SubSeq(errors, Len(errors) - n + 1, Len(errors))

\* what C9 says of the i-th base URL
OneErrorPerChildThenOneFailure(i) ==
    /\ i >= idx
    /\ (i = idx /\ pc = "fetch" /\ stack = <<>>) =>
         /\ Len(errors) - initial_error_count = Len(IndexChildren(i))
         /\ LastErrors(Len(IndexChildren(i))) = ChildErrors(i)
         /\ MustThrow
    /\ (i = idx /\ pc = "failed") =>
         /\ nThrown = 1
         /\ thrown = <<ExpectedMessage(bind.base_urls[i], ChildErrors(i))>>
         /\ [k \in 1..Len(WalkLog(i)) |-> WalkLog(i)[k].url]
              = <<candLog[i][1]>> \o [k \in 1..Len(IndexChildren(i)) |-> IndexChildren(i)[k].url]

\* C9 as stated (for a depth bound N >= 0): with ignore_errors disabled, a base URL
\* discovered as a sitemap index whose children are all unreachable records one
\* error per child and raises exactly one hard failure, after every candidate was
\* walked.
C9_Original ==
    (~bind.ignore_errors /\ bind.max_depth >= 0) =>
      /\ nThrown <= 1
      /\ \A i \in 1..Len(candLog) :
           AllChildrenUnreachable(i) => OneErrorPerChildThenOneFailure(i)

\* C9 amended: the same, for a depth bound of at least 1, so that the children are
\* within the bound.
C9_Amended ==
    (~bind.ignore_errors /\ bind.max_depth >= 1) =>
      /\ nThrown <= 1
      /\ \A i \in 1..Len(candLog) :
           AllChildrenUnreachable(i) => OneErrorPerChildThenOneFailure(i)

\* C9 witness: the failure was raised for an index of two unreachable children.
C9_Witness ==
    /\ pc = "failed"
    /\ bind.max_depth >= 1
    /\ AllChildrenUnreachable(idx)
    /\ Len(IndexChildren(idx)) = 2
    /\ thrown[1].last # <<>>

\* C10: HttpClient::Fetch makes at most max_retries + 1 attempts; every attempt but
\* the last had a retryable outcome (transport failure, or 429, 500, 502, 503, 504)
\* and left budget; a 2xx outcome or any other status ends the fetch at once; a fetch
\* that ends on a retryable outcome has used its whole budget and returns
\* success = false with a non-empty error.
C10_RetryBound ==
    LET retryable(o) == ~o.transport_ok \/ o.status \in {429, 500, 502, 503, 504}
        ok(o) == o.transport_ok /\ o.status >= 200 /\ o.status <= 299
        last == outcomes[Len(outcomes)]
    IN  /\ attempt = Len(outcomes)
        /\ attempt <= rc.max_retries + 1
        /\ \A k \in 1..(Len(outcomes) - 1) : retryable(outcomes[k])
        /\ fstate = "idle" => attempt = 0
        /\ (fstate = "running" /\ attempt > 0) =>
             retryable(last) /\ attempt < rc.max_retries + 1
        /\ fstate = "done" =>
             /\ attempt >= 1
             /\ fresult.success <=> ok(last)
             /\ retryable(last) =>
                  /\ attempt = rc.max_retries + 1
                  /\ ~fresult.success
                  /\ fresult.error # ""

\* C10 witness: with max_retries = 2 the third attempt answered 503 and the fetch
\* gave up.
C10_Witness ==
    /\ fstate = "done"
    /\ rc.max_retries = 2
    /\ attempt = 3
    /\ outcomes[3].status = 503
    /\ ~fresult.success


\* C11: the wait before retry attempt k (k >= 1) is
\* min(initial_backoff_ms * backoff_multiplier^(k-1), max_backoff_ms), hence at most
\* max_backoff_ms, unless the response before it carried a Retry-After header that is
\* a non-negative integer number of seconds, and then the wait is that many seconds;
\* a header that is no such number leaves the computed backoff in force.
C11_Seconds ==
    (<<"0">> :> 0) @@ (<<"1", "2">> :> 12)

C11_Backoff ==
    \A k \in 1..Len(waits) :
        LET h == outcomes[k].retry_after
            grown == rc.initial_backoff_ms * (rc.backoff_multiplier ^ (k - 1))
        IN  IF h \in DOMAIN C11_Seconds
            THEN waits[k] = 1000 * C11_Seconds[h]
            ELSE /\ waits[k] = (IF grown < rc.max_backoff_ms THEN grown
                                ELSE rc.max_backoff_ms)
                 /\ waits[k] <= rc.max_backoff_ms

\* C11 witness: with max_backoff_ms = 150 the first response carried Retry-After "12"
\* and the first retry waited 12 seconds; the second response carried an unparsable
\* Retry-After and the second retry waited the capped backoff, 150 ms instead of 200.
C11_Witness ==
    /\ rc.max_backoff_ms = 150
    /\ Len(waits) = 2
    /\ outcomes[1].retry_after = <<"1", "2">>
    /\ waits[1] = 12000
    /\ outcomes[2].retry_after = <<"x">>
    /\ waits[2] = 150

---------------------------------------------------------------------------
(* The bruteforce probe *)

\* the candidates of a row, filenames outer and filetypes inner, written out
ExpectedCandidates(row) ==
    LET base == IF row = <<<<"e">>>> THEN <<"https://", "e">> ELSE <<"a">>
    IN  << base \o <<"/", "sitemap", ".", "xml">>,
           base \o <<"/", "sitemap", ".", "txt">>,
           base \o <<"/", "sitemap_index", ".", "xml">>,
           base \o <<"/", "sitemap_index", ".", "txt">> >>

\* a response the probe must accept: 2xx with an xml, gzip or plain content type
Acceptable(response) ==
    /\ response.status_code \in 200..299
    /\ response.content_type \in {CT_XML_upper, CT_plain, CT_gzip}

\* the fetches of the log are the first candidates of the row, in order
LogFollows(row) ==
    /\ Len(bf_log) <= Len(ExpectedCandidates(row))
    /\ \A k \in 1..Len(bf_log) : bf_log[k].url = ExpectedCandidates(row)[k]

\* the row before bf_i has just been finished by a probe
RowProbed ==
    /\ bf_pc \in {"row", "returned"}
    /\ bf_i > 1
    /\ bf_args[bf_i - 1] # Null

\* C12: the probe fetches the candidates of a row in filenames-outer,
\* filetypes-inner order and returns the first one whose response has a status in
\* [200,300) and a content type containing, in any letter case, xml, gzip or plain;
\* nothing is fetched for the row after the accepted candidate.
C12_FirstAccepted ==
    /\ bf_pc = "probe" =>
         /\ LogFollows(bf_args[bf_i])
         /\ Len(bf_log) < Len(ExpectedCandidates(bf_args[bf_i]))
         /\ \A k \in 1..Len(bf_log) : ~Acceptable(bf_log[k].response)
    /\ RowProbed =>
         LET row == bf_args[bf_i - 1]
             n == Len(bf_log)
         IN  /\ n >= 1
             /\ LogFollows(row)
             /\ \A k \in 1..(n - 1) : ~Acceptable(bf_log[k].response)
             /\ IF Acceptable(bf_log[n].response)
                THEN bf_result[bf_i - 1] = <<bf_log[n].url>>
                ELSE /\ n = Len(ExpectedCandidates(row))
                     /\ bf_result[bf_i - 1] = Null

\* C12 witness: for the row "e" the first two candidates were turned down (a 404 with
\* a plain content type, a 200 with an html one) and the third, answered 200 with
\* content type TEXT/XML, was returned.
C12_Witness ==
    /\ RowProbed
    /\ bf_args[bf_i - 1] = <<<<"e">>>>
    /\ Len(bf_log) = 3
    /\ bf_log[1].response.status_code = 404
    /\ bf_log[2].response.content_type = CT_html
    /\ bf_log[3].response.content_type = CT_XML_upper
    /\ bf_result[bf_i - 1] = <<<<"https://", "e", "/", "sitemap_index", ".", "xml">>>>

\* C13: the probe has no failing exit: every row gets a result, either NULL or the
\* URL of a candidate that was fetched, whatever the fetches gave; a NULL row gets
\* NULL and nothing is fetched for it.
C13_NoHardError ==
    /\ bf_pc \in {"idle", "row", "probe", "returned"}
    /\ Len(bf_result) = (IF bf_pc = "idle" THEN 0 ELSE bf_i - 1)
    /\ bf_pc = "returned" => Len(bf_result) = Len(bf_args)
    /\ \A k \in 1..Len(bf_result) :
         /\ bf_result[k] = Null
            \/ \E c \in 1..Len(ExpectedCandidates(bf_args[k])) :
                  bf_result[k] = <<ExpectedCandidates(bf_args[k])[c]>>
         /\ bf_args[k] = Null => bf_result[k] = Null
    /\ bf_pc = "probe" => bf_args[bf_i] # Null
    /\ (bf_pc \in {"row", "returned"} /\ bf_i > 1 /\ bf_args[bf_i - 1] = Null) =>
         bf_log = <<>>

\* C13 witness: the call returned NULL for both rows: the first was NULL, and every
\* candidate of the second failed or was turned down.
C13_Witness ==
    /\ bf_pc = "returned"
    /\ bf_args = <<Null, <<<<"a", "/">>>> >>
    /\ bf_result = <<Null, Null>>
    /\ Len(bf_log) = 4
    /\ bf_log[1].response.status_code = 0
    /\ bf_log[4].response.status_code = 404

---------------------------------------------------------------------------
(* The discovery cache over the calls of a process *)

\* the discoveries of base_url later than the k-th discovery
LaterDiscoveries(k) ==
    {j \in (k + 1)..Len(discoveries) : discoveries[j].base_url = discoveries[k].base_url}

\* the discovery of the same base URL that follows the k-th one, 0 if none has
NextDiscovery(k) ==
    IF LaterDiscoveries(k) = {} THEN 0
    ELSE CHOOSE j \in LaterDiscoveries(k) : \A j2 \in LaterDiscoveries(k) : j <= j2

\* the k-th discovery went through the strategies and stored what it found
Stored(k) == discoveries[k].probed /\ discoveries[k].result # <<>>

\* C14: every entry of the cache is a non-empty list; a discovery that went through
\* all strategies and returned the empty list wrote nothing to the cache, so the
\* next discovery of that base URL probes again.
C14_CacheNonEmpty ==
    /\ \A b \in DOMAIN cache : cache[b] # <<>>
    /\ \A k \in 1..Len(discoveries) :
         discoveries[k].result = <<>> =>
           /\ discoveries[k].probed
           /\ IF NextDiscovery(k) = 0
              THEN discoveries[k].base_url \notin DOMAIN cache
              ELSE discoveries[NextDiscovery(k)].probed

\* C14 witness: the first call found nothing for base URL a and left the cache empty;
\* the second call probed a again and this time found candidates, which it stored.
C14_Witness ==
    /\ Len(discoveries) = 2
    /\ discoveries[1].base_url = A
    /\ discoveries[1].call = 1
    /\ discoveries[1].result = <<>>
    /\ discoveries[2].base_url = A
    /\ discoveries[2].call = 2
    /\ discoveries[2].probed
    /\ discoveries[2].result # <<>>
    /\ A \in DOMAIN cache

\* the position of the j-th discovery in the base_urls of its call
PositionInCall(j) ==
    Cardinality({j2 \in 1..j : discoveries[j2].call = discoveries[j].call})

---------------------------------------------------------------------------
(* Direct sitemap URLs *)

\* s ends in suffix
EndsWith(s, suffix) ==
    Len(s) >= Len(suffix) /\ SubSeq(s, Len(s) - Len(suffix) + 1, Len(s)) = suffix

\* C16 as stated: a URL is taken for a sitemap file exactly when it contains
\* "sitemap" in any letter case and ends in ".xml" or ".xml.gz"; a URL with ".xml"
\* only before its end is not taken for one.
C16_EndsInXml ==
    fn = "IsSitemapUrl" =>
      (ret <=> /\ Contains(ToLower(Text(arg)), S_sitemap)
               /\ \/ EndsWith(ToLower(Text(arg)), S_xml)
                  \/ EndsWith(ToLower(Text(arg)), S_xml_gz))

\* the URL names a sitemap file as the code recognizes one
RecognizedDirect(url) ==
    /\ Contains(ToLower(Text(url)), S_sitemap)
    /\ Contains(ToLower(Text(url)), S_xml)

\* DiscoverSitemapUrls is about to run for a base URL recognized as a sitemap file
DirectDiscovery ==
    /\ pc = "loop"
    /\ idx <= Len(bind.base_urls)
    /\ RecognizedDirect(bind.base_urls[idx])

\* C17: for a base URL recognized as a sitemap file DiscoverSitemapUrls returns
\* exactly <<base URL>>, fetches nothing and leaves the cache as it was; no such base
\* URL is ever a key of the cache, so no entry of the cache is used for it.
C17_DirectBypassesCache ==
    /\ [](\A k \in 1..Len(discoveries) :
            RecognizedDirect(discoveries[k].base_url) =>
              /\ discoveries[k].result = <<discoveries[k].base_url>>
              /\ ~discoveries[k].probed
              /\ discoveries[k].base_url \notin DOMAIN cache)
    /\ [][DirectDiscovery =>
            /\ sitemap_urls' = <<bind.base_urls[idx]>>
            /\ candLog' = Append(candLog, <<bind.base_urls[idx]>>)
            /\ cache' = cache
            /\ fetchLog' = fetchLog
            /\ web' = web
            /\ pc' = "fetch"]_vars

\* C17 witness: the first call stored candidates for base URL a; the second call was
\* given a/sitemap.xml, got exactly that URL back without any fetch, and the cache
\* still holds the entry of a and nothing else.
C17_Witness ==
    /\ Len(discoveries) = 2
    /\ Stored(1)
    /\ discoveries[1].base_url = A
    /\ discoveries[2].call = 2
    /\ discoveries[2].base_url = SX_A
    /\ discoveries[2].result = <<SX_A>>
    /\ ~discoveries[2].probed
    /\ fetchLog = <<>>
    /\ DOMAIN cache = {A}
    /\ cache[A] = discoveries[1].result

---------------------------------------------------------------------------
(* robots.txt *)

\* what each line of the input universe must contribute: the trimmed remainder of a
\* line that starts, after trimming, with "sitemap:" in any letter case, if that
\* remainder is not empty
ExpectedOfLine ==
    ("L_plain" :> <<<<"u", "1">>>>) @@
    ("L_padded" :> <<<<"u", "2">>>>) @@
    ("L_upper" :> <<<<"u", "1">>>>) @@
    ("L_inner" :> <<<<"u", " ", "2">>>>) @@
    ("L_no_url" :> <<>>) @@
    ("L_blank_url" :> <<>>) @@
    ("L_comment" :> <<>>) @@
    ("L_padded_comment" :> <<>>) @@
    ("L_empty" :> <<>>) @@
    ("L_spaces" :> <<>>) @@
    ("L_other" :> <<>>) @@
    ("L_late" :> <<>>) @@
    ("L_no_colon" :> <<>>)

\* C18: ParseSitemapUrls returns, in file order and with duplicates kept, exactly the
\* trimmed remainders of the lines that after trimming start with "sitemap:" in any
\* letter case and have a non-empty remainder; empty lines, lines whose first
\* non-space character is '#' and lines not starting with the directive contribute
\* nothing.
C18_RobotsDirectives ==
    fn = "ParseSitemapUrls" =>
      ret = ConcatAll([k \in 1..Len(arg) |-> ExpectedOfLine[arg[k]]])

\* C18 witness: a comment naming a sitemap is followed by a padded lower-case
\* directive; only the directive's URL is returned, trimmed.
C18_Witness ==
    /\ fn = "ParseSitemapUrls"
    /\ arg = <<"L_comment", "L_padded">>
    /\ ret = <<<<"u", "2">>>>

---------------------------------------------------------------------------
(* The entries of a urlset *)

\* what each loc text is once trimmed
TrimmedLoc ==
    (<<>> :> <<>>) @@ (<<"u", "1">> :> <<"u", "1">>) @@
    (<<" ", "u", "2", "\n">> :> <<"u", "2">>) @@
    (<<"u", " ", "3">> :> <<"u", " ", "3">>) @@
    (<<" ", " ">> :> <<>>) @@ (<<"\t", "\n">> :> <<>>)

\* the trimmed, non-empty locs of the elements of one namespace, in document order
ExpectedUrls(elements, ns) ==
    LET kept == SelectSeq(elements, LAMBDA e : e.ns = ns /\ TrimmedLoc[e.loc] # <<>>)
    IN  [i \in 1..Len(kept) |-> TrimmedLoc[kept[i].loc]]

\* C19 as stated: for a urlset, ParseSitemap trims each loc and drops the entry when
\* the trimmed loc is empty, a loc of whitespace only included; so every entry has a
\* non-empty url that neither starts nor ends with space, tab, CR or LF, and the
\* entries kept are in document order.
C19_TrimmedNonEmpty ==
    (fn = "ParseSitemap" /\ arg.root = "urlset") =>
      /\ \A i \in 1..Len(ret.urls) :
           /\ ret.urls[i].url # <<>>
           /\ ret.urls[i].url[1] \notin {" ", "\t", "\r", "\n"}
           /\ ret.urls[i].url[Len(ret.urls[i].url)] \notin {" ", "\t", "\r", "\n"}
      /\ [i \in 1..Len(ret.urls) |-> ret.urls[i].url]
           = (IF ExpectedUrls(arg.elements, "sm") # <<>>
              THEN ExpectedUrls(arg.elements, "sm")
              ELSE ExpectedUrls(arg.elements, "sm2"))

---------------------------------------------------------------------------
(* Termination of the walk *)

\* the most FetchSitemap calls a call at this depth can amount to, itself included,
\* when no index has more than MaxChildren children
RECURSIVE CallsBelow(_)
CallsBelow(depth) ==
    IF depth > bind.max_depth THEN 1 ELSE 1 + MaxChildren * CallsBelow(depth + 1)

\* the most FetchSitemap calls the pending frames can still amount to
RECURSIVE WalkMeasure(_)
WalkMeasure(frames) ==
    IF frames = <<>> THEN 0
    ELSE CallsBelow(Head(frames).depth) + WalkMeasure(Tail(frames))

\* C20: the walk started by FetchSitemap at depth 0 terminates for any documents,
\* cyclic indexes included, and any max_depth, as long as every fetch returns: every
\* call either returns at once or fetches and calls its children one level deeper,
\* so each step of the walk lowers a measure that is never negative, the number of
\* calls the pending frames can still amount to.
C20_WalkTerminates ==
    /\ [](/\ \A url \in DOMAIN web : Len(web[url].body.doc.sitemaps) <= MaxChildren
          /\ WalkMeasure(stack) >= Len(stack)
          /\ \A k \in 1..Len(fetchLog) :
               fetchLog[k].phase = "sitemap" => fetchLog[k].depth <= bind.max_depth)
    /\ [][(pc = "fetch" /\ stack # <<>>) =>
            /\ pc' = "fetch"
            /\ bind' = bind
            /\ WalkMeasure(stack') < WalkMeasure(stack)]_vars

\* C20 witness: with max_depth = 2 two indexes that name each other were walked at
\* depths 0, 1 and 2, the call at depth 3 returned without fetching, and the walk
\* is over.
C20_Witness ==
    /\ pc = "fetch"
    /\ stack = <<>>
    /\ bind.max_depth = 2
    /\ \E u, v \in DOMAIN web :
         /\ u # v
         /\ web[u].body.doc.sitemaps = <<v>>
         /\ web[v].body.doc.sitemaps = <<u>>
         /\ \E i, j, k \in 1..Len(fetchLog) :
              /\ i < j /\ j < k
              /\ fetchLog[i] = Fetched("sitemap", u, 0)
              /\ fetchLog[j] = Fetched("sitemap", v, 1)
              /\ fetchLog[k] = Fetched("sitemap", u, 2)
         /\ truncated = <<Fetched("sitemap", v, 3)>>

---------------------------------------------------------------------------
(* C21: once the DiscoveryCache holds an entry for a base URL, the entry is *)
(* never removed and its candidate list is never replaced by a different   *)
(* list, under every interleaving of concurrent invocations.               *)

\* the entries of the cache before a step are the same after it
EntriesKept ==
    \A base_url \in DOMAIN cache :
      base_url \in DOMAIN cache' /\ cache'[base_url] = cache[base_url]

\* C21 as stated: no step of any invocation removes an entry of the DiscoveryCache or
\* replaces its candidate list by a different list
C21_EntryNeverReplaced == [][EntriesKept]_vars

---------------------------------------------------------------------------
(* C22: the cost of the probe *)

\* the cache has an entry for the base URL the probe of the latest row worked on
BaseIsCached == bf_base \in DOMAIN cache /\ cache[bf_base] # <<>>

\* C22: for one row the probe fetches each candidate with a zero-retry policy, so
\* with exactly one attempt, issues at most |filenames| x |filetypes| fetches, and
\* neither reads nor writes the DiscoveryCache: whatever the cache holds for the base
\* URL of the row, the candidates are fetched, the result is the URL of the last
\* fetch or NULL, and no step of the probe changes the cache.
C22_CostBounded ==
    /\ [](/\ \A k \in 1..Len(bf_log) :
               bf_log[k].max_retries = 0 /\ bf_log[k].attempts = 1
          /\ Len(bf_log) <= Len(Filenames) * Len(Filetypes)
          /\ RowProbed =>
               /\ Len(bf_log) >= 1
               /\ bf_result[bf_i - 1] \in {Null, <<bf_log[Len(bf_log)].url>>})
    /\ [][cache' = cache]_vars

\* C22 witness: the cache holds a list for https://e; the probe of the row "e" still
\* fetched all four candidates, once each, got a transport failure for the first,
\* and returned NULL.
C22_Witness ==
    /\ RowProbed
    /\ bf_args[bf_i - 1] = <<<<"e">>>>
    /\ BaseIsCached
    /\ Len(bf_log) = 4
    /\ bf_log[1].response.status_code = 0
    /\ bf_log[1].attempts = 1
    /\ bf_result[bf_i - 1] = Null

---------------------------------------------------------------------------
(* C23: the two namespaces are never merged *)

\* the elements of the document the query of namespace ns matches
Matching(ns) == SelectSeq(arg.elements, LAMBDA e : e.ns = ns)

\* what the elements of namespace ns alone put into a result: the locs, in order
Contribution(ns) ==
    IF arg.root = "urlset"
    THEN LET urls == UrlsOf(arg.elements, ns)
         IN  [i \in 1..Len(urls) |-> urls[i].url]
    ELSE SitemapsOf(arg.elements, ns)

\* the locs of the result ParseSitemap returned
Returned ==
    IF arg.root = "urlset"
    THEN [i \in 1..Len(ret.urls) |-> ret.urls[i].url]
    ELSE ret.sitemaps

\* C23 as stated: the result is that of the canonical namespace whenever its
\* query matches an element, and that of the legacy namespace only when the
\* canonical query matched no element.
C23_Original ==
    fn = "ParseSitemap" =>
      Returned = (IF Matching("sm") # <<>> THEN Contribution("sm")
                  ELSE Contribution("sm2"))

\* C23 amended: the result comes from one namespace only; it is that of the canonical
\* namespace whenever that namespace puts anything into it, and it holds locs of
\* the legacy namespace only when the canonical one put nothing into it, be it that
\* its query matched no element or that no matched element had a loc that was kept.
C23_Amended ==
    fn = "ParseSitemap" =>
      /\ Returned \in {Contribution("sm"), Contribution("sm2")}
      /\ Contribution("sm") # <<>> => Returned = Contribution("sm")
      /\ (Returned # <<>> /\ Returned # Contribution("sm")) =>
           Contribution("sm") = <<>> /\ Returned = Contribution("sm2")

\* C23 witness: a urlset with a canonical <url> whose loc is empty and a legacy <url>
\* with the loc u1: the canonical query matched an element, yet the result is the
\* legacy entry alone.
C23_Witness ==
    /\ fn = "ParseSitemap"
    /\ arg.root = "urlset"
    /\ arg.elements = << [ns |-> "sm", loc |-> <<>>, lastmod |-> ""],
                         [ns |-> "sm2", loc |-> <<"u", "1">>, lastmod |-> ""] >>
    /\ Returned = << <<"u", "1">> >>

---------------------------------------------------------------------------
(* C24: IsGzipped *)

\* the content types that name gzip in some letter case
NamesGzip == {CT_gzip, CT_GZIP_upper, CT_x_Gzip}

\* C24 as stated: IsGzipped is true exactly when the URL ends in ".gz" in any letter
\* case or the content type contains "gzip" in any letter case, "a/GZIP" included.
C24_CaseInsensitive ==
    fn = "IsGzipped" =>
      (ret <=> \/ EndsWith(ToLower(Text(arg.url)), S_gz)
               \/ arg.content_type \in NamesGzip)

---------------------------------------------------------------------------
(* C25: follow_robots disabled *)

\* the discoveries before the k-th one that stored a list for its base URL
StoredBefore(k) ==
    {j \in 1..(k - 1) : discoveries[j].base_url = discoveries[k].base_url /\ Stored(j)}

\* the list the k-th discovery returned was obtained from the Sitemap directives of
\* a robots.txt: by this discovery, or by the one that stored the list it was given
\* from the cache
FromRobots(k) ==
    \/ discoveries[k].via = "robots"
    \/ /\ discoveries[k].via = "loop"
       /\ StoredBefore(k) # {}
       /\ discoveries[SetMax(StoredBefore(k))].via = "robots"

\* the robots.txt fetches among the discovery fetches of the k-th discovery, if it
\* belongs to the call that is running
RobotsFetches(k) ==
    IF discoveries[k].call = ncalls
    THEN SelectSeq(DiscLog(PositionInCall(k)), LAMBDA f : f.phase = "robots")
    ELSE <<>>

\* C25 as stated: a discovery of a call with follow_robots disabled, for a base URL
\* that is not a sitemap file, never returns a list obtained from robots.txt, whatever
\* calls ran before it in the process.
C25_Original ==
    \A k \in 1..Len(discoveries) :
      (~discoveries[k].follow_robots /\ ~IsSitemapUrl(discoveries[k].base_url)) =>
        ~FromRobots(k)

\* C25 amended: a discovery of a call with follow_robots disabled, for a base URL
\* that is not a sitemap file, never fetches robots.txt and never obtains its list
\* from robots.txt itself; the list it returns was obtained from robots.txt only
\* when it is the cached list, stored for that base URL by a discovery of an earlier
\* call that had follow_robots enabled.
C25_Amended ==
    \A k \in 1..Len(discoveries) :
      (~discoveries[k].follow_robots /\ ~IsSitemapUrl(discoveries[k].base_url)) =>
        /\ discoveries[k].via # "robots"
        /\ RobotsFetches(k) = <<>>
        /\ FromRobots(k) =>
             /\ ~discoveries[k].probed
             /\ \E j \in 1..(k - 1) :
                  /\ discoveries[j].base_url = discoveries[k].base_url
                  /\ discoveries[j].call < discoveries[k].call
                  /\ discoveries[j].follow_robots
                  /\ discoveries[j].via = "robots"
                  /\ discoveries[j].result = discoveries[k].result

\* C25 witness: the first call, with follow_robots, took <<d1.xml>> from the robots.txt
\* of base URL b; the second call, with follow_robots disabled, was handed that list
\* for b and has fetched nothing.
C25_Witness ==
    /\ Len(discoveries) = 2
    /\ discoveries[1].via = "robots"
    /\ discoveries[1].base_url = B
    /\ discoveries[2].base_url = B
    /\ ~discoveries[2].follow_robots
    /\ FromRobots(2)
    /\ discoveries[2].result = <<D1>>
    /\ ncalls = 2
    /\ fetchLog = <<>>

---------------------------------------------------------------------------
(* C26: errors of a base URL that contributed entries *)

\* the base URLs the loop has started on
Started == 1..(IF idx <= Len(bind.base_urls) THEN Len(candLog) ELSE Len(bind.base_urls))

\* the errors recorded while the base URLs started on were processed, in order
RecordedErrors == ConcatAll([i \in Started |-> ErrorsOf(WalkLog(i))])

\* C26: a base URL that contributed at least one entry raises no hard failure,
\* whatever errors were recorded while it was processed and whatever ignore_errors
\* is; as long as no failure is raised those errors are in the error list of the
\* collector, and a failure raised for a later base URL, which contributed nothing,
\* carries no error of an earlier one.
C26_ContributorNeverFails ==
    /\ (pc = "fetch" /\ stack = <<>> /\ EntriesOf(WalkLog(idx)) # <<>>) => ~MustThrow
    /\ pc # "failed" =>
         /\ thrown = <<>>
         /\ pc # "bind" => errors = RecordedErrors
    /\ pc = "failed" =>
         /\ EntriesOf(WalkLog(idx)) = <<>>
         /\ thrown[1].base = bind.base_urls[idx]
         /\ thrown[1].last \in
              {<<>>} \cup {<<ErrorsOf(WalkLog(idx))[k]>> : k \in 1..Len(ErrorsOf(WalkLog(idx)))}

\* C26 witness: with ignore_errors disabled, both base URLs contributed entries and
\* each had an error recorded; the call went through to the scan, the two errors are
\* in the error list and nothing was raised.
C26_Witness ==
    /\ ~bind.ignore_errors
    /\ pc = "scan"
    /\ Len(bind.base_urls) = 2
    /\ EntriesOf(WalkLog(1)) # <<>>
    /\ EntriesOf(WalkLog(2)) # <<>>
    /\ ErrorsOf(WalkLog(1)) # <<>>
    /\ ErrorsOf(WalkLog(2)) # <<>>
    /\ Len(errors) >= 2
    /\ thrown = <<>>

---------------------------------------------------------------------------
(* C27: output pagination *)

\* the rows of the entries from position from + 1 to position from + n
RowsFrom(from, n) == [i \in 1..n |-> Row(entries[from + i])]

\* C27: the rows emitted so far are the first current_idx entries of the collector,
\* in order, each once; the cursor never decreases and never exceeds the number of
\* entries; nothing is emitted before the scan, and the scan runs only once all
\* base URLs are processed, with no fetch, entry or error added afterwards; a scan
\* call emits the rows from the cursor on, a full batch or all that is left, so at
\* least one while entries are left and none once all are emitted.
C27_Pagination ==
    /\ [](/\ current_idx <= Len(entries)
          /\ output = RowsFrom(0, current_idx)
          /\ lastBatch <= VectorSize
          /\ pc # "scan" => current_idx = 0 /\ output = <<>> /\ ~fetch_complete
          /\ pc = "scan" =>
               /\ fetch_complete
               /\ stack = <<>>
               /\ idx > Len(bind.base_urls)
               /\ thrown = <<>>)
    /\ [][/\ current_idx' >= current_idx
          /\ pc = "scan" =>
               LET n == current_idx' - current_idx
               IN  /\ pc' = "scan"
                   /\ entries' = entries /\ errors' = errors /\ fetchLog' = fetchLog
                   /\ n <= VectorSize
                   /\ n = VectorSize \/ current_idx' = Len(entries)
                   /\ lastBatch' = n
                   /\ output' = output \o RowsFrom(current_idx, n)
                   /\ current_idx < Len(entries) => n >= 1
                   /\ current_idx = Len(entries) => n = 0 /\ output' = output]_vars

\* C27 witness: the collector holds more entries than one batch; they were emitted
\* in several scan calls, and the scan call after the last of them emitted no row.
C27_Witness ==
    /\ pc = "scan"
    /\ Len(entries) > VectorSize
    /\ current_idx = Len(entries)
    /\ Len(output) = Len(entries)
    /\ lastBatch = 0

====
